---- MODULE Spec2Model ----
(***************************************************************************)
(* Flight-fare ingestion pipeline: the two-phase request protocol          *)
(* (initial request, then a bounded poll loop), the conversion of the      *)
(* extracted itineraries into Flight/Trip/Leg/Deal records and their       *)
(* upsert into the store.  Three coordinators are modelled:                *)
(*   "fetchSkyscanner"     the library loop with its own pollRequest       *)
(*   "FlightScraper"       the single-search entry point (scrape)          *)
(*   "FlightScraperShared" its copy that imports the shared services       *)
(*   "FlightScraperRange"  the date-range entry point (scrapeRange)        *)
(* Every await of the code is an action boundary.                          *)
(***************************************************************************)
EXTENDS Integers, Sequences, FiniteSets, TLC

\* ------------------------------------------------------------------ bounds
\* number of entry-point invocations explored, one after the other
MaxCalls == 2

\* ------------------------------------------------------- program constants
\* const maxPolls = 20
maxPolls == 20

Impls == {"fetchSkyscanner", "FlightScraper", "FlightScraperShared", "FlightScraperRange"}

\* ------------------------------------------------------------ cookie text
\* A cookie string "n1=v1; n2=v2" is the sequence of its <<name, value>>
\* parts; the empty string is the empty sequence.
NoCookies == <<>>

\* new Map(): position of key k in the entry list m, 0 when absent
MapIndex(m, k) ==
    IF \E i \in 1..Len(m) : m[i][1] = k
    THEN CHOOSE i \in 1..Len(m) : m[i][1] = k /\ \A j \in 1..(i-1) : m[j][1] # k
    ELSE 0

\* Map.set(k, v): overwrite in place, or append in insertion order
MapSet(m, k, v) ==
    IF MapIndex(m, k) = 0 THEN Append(m, <<k, v>>)
    ELSE [m EXCEPT ![MapIndex(m, k)] = <<k, v>>]

\* forEach(c => if (name) map.set(name, value)) over a cookie string
RECURSIVE MapSetAll(_, _)
MapSetAll(m, cs) ==
    IF cs = <<>> THEN m
    ELSE MapSetAll(IF Head(cs)[1] # "" THEN MapSet(m, Head(cs)[1], Head(cs)[2]) ELSE m,
                   Tail(cs))

\* the set-cookie handling of the library pollRequest
MergeCookies(cookies, setCookieHeader) ==
    IF setCookieHeader = <<>> THEN cookies
    ELSE IF cookies # <<>>
         THEN MapSetAll(MapSetAll(<<>>, cookies), setCookieHeader)
         ELSE setCookieHeader

\* the name -> value reading of a cookie string (last occurrence wins)
CookieNamesOf(cs) == { cs[i][1] : i \in 1..Len(cs) }
CookieValue(cs, n) ==
    LET idx == { i \in 1..Len(cs) : cs[i][1] = n }
    IN cs[CHOOSE i \in idx : \A j \in idx : j <= i][2]

\* ---------------------------------------------------------- wire format
\* A response text is the sequence of its '|'-separated fields.  An error
\* page is one field of HTML.
Page504 == "<title>504 Gateway Time-out</title>"
Page404 == "<title>Page Not Found</title>"

\* responseText.includes(marker)
Includes504(parts) == \E i \in 1..Len(parts) : parts[i] = Page504
Includes404(parts) == \E i \in 1..Len(parts) : parts[i] = Page404

\* payloads of field 6; a leading % marks a percent-encoded payload
PayloadTexts == {"", "docA1", "%docA2", "docB", "%docEmpty", "%bad"}
HasPercent(body) == body \in {"%docA2", "%docEmpty", "%bad"}
\* decodeURIComponent: throws on a malformed escape
DecodeThrows(body) == body = "%bad"
DecodeURIComponent(body) ==
    CASE body = "%docA2" -> "docA2"
      [] body = "%docEmpty" -> "docEmpty"
      [] OTHER -> body

DataText(flag, payload) == <<flag, "1", "", "", "", "", payload>>

\* what the transport can deliver for one poll request
PollBodies ==
    { [status |-> 200, parts |-> DataText("N", "")] }
    \cup { [status |-> 200, parts |-> DataText("Y", p)] : p \in PayloadTexts }
    \cup { [status |-> 200, parts |-> <<"N", "1">>],
           [status |-> 504, parts |-> <<Page504>>],
           [status |-> 200, parts |-> <<Page504>>],
           [status |-> 404, parts |-> <<Page404>>],
           [status |-> 200, parts |-> <<Page404>>] }

SetCookieHeaders == { <<>>, << <<"sid", "s2">> >> }

PollResponses ==
    { [throws |-> FALSE, status |-> b.status, parts |-> b.parts, setCookie |-> h] :
        b \in PollBodies, h \in SetCookieHeaders }
    \cup { [throws |-> TRUE, status |-> 0, parts |-> <<>>, setCookie |-> <<>>] }

IsTerminalResponse(r) == ~r.throws /\ Len(r.parts) > 0 /\ r.parts[1] = "Y"

\* ------------------------------------------------------- initial request
NullData == [isNull |-> TRUE, token |-> "", noc |-> ""]
DataObjects ==
    { NullData,
      [isNull |-> FALSE, token |-> "", noc |-> "0"],
      [isNull |-> FALSE, token |-> "tok", noc |-> "0"] }

InitialCookieHeaders == { <<>>, << <<"sid", "s1">>, <<"aws", "w0">> >> }

InitialResponses ==
    { [throws |-> FALSE, data |-> d, setCookie |-> h] :
        d \in DataObjects, h \in InitialCookieHeaders }
    \cup { [throws |-> TRUE, data |-> NullData, setCookie |-> <<>>] }

\* getRequest: cookies are the name=value parts of set-cookie; data is the
\* object literal after "data:" (null when absent or unparseable)
getRequest(r) ==
    IF r.throws
    THEN [success |-> FALSE, cookies |-> NoCookies, data |-> NullData]
    ELSE [success |-> TRUE, cookies |-> r.setCookie, data |-> r.data]

\* !initialResult.data || !initialResult.data['_token']
NoTokenOnlyNull(data) == data.isNull
NoToken(data) == data.isNull \/ data.token = ""

\* ------------------------------------------------------------------ text
\* A string of the identity pipeline is the sequence of its UTF-16 code
\* units, so that concatenation, comparison and sorting are those of the
\* JavaScript strings.
NullStr == <<>>
Digit(n) == 48 + n
IsDigit(c) == c \in 48..57
DigitVal(c) == c - 48
Pad2(n) == << Digit(n \div 10), Digit(n % 10) >>
Colon == 58
Dash == 45
Underscore == 95
Bar == 124
Space == 32
S_UNKNOWN == <<85, 78, 75, 78, 79, 87, 78>>
S_XXX == <<88, 88, 88>>
S_0000 == <<48, 48, 58, 48, 48>>
S_outbound_ == <<111, 117, 116, 98, 111, 117, 110, 100, 95>>
S_inbound_ == <<105, 110, 98, 111, 117, 110, 100, 95>>
S__skyscanner_ == <<95, 115, 107, 121, 115, 99, 97, 110, 110, 101, 114, 95>>

\* a < b in code-unit order (the default comparison of Array.prototype.sort)
RECURSIVE StrLess(_, _)
StrLess(a, b) ==
    IF b = <<>> THEN FALSE
    ELSE IF a = <<>> THEN TRUE
    ELSE IF Head(a) # Head(b) THEN Head(a) < Head(b)
    ELSE StrLess(Tail(a), Tail(b))

\* insert x into the sorted list s, after the elements that are not greater
RECURSIVE SortedInsert(_, _)
SortedInsert(s, x) ==
    IF s = <<>> THEN <<x>>
    ELSE IF StrLess(x, Head(s)) THEN <<x>> \o s
    ELSE <<Head(s)>> \o SortedInsert(Tail(s), x)

\* ids.sort()
RECURSIVE SortStrings(_)
SortStrings(ids) ==
    IF ids = <<>> THEN <<>>
    ELSE SortedInsert(SortStrings(Tail(ids)), Head(ids))

\* ids.join('|')
RECURSIVE JoinBar(_)
JoinBar(ids) ==
    IF ids = <<>> THEN <<>>
    ELSE IF Len(ids) = 1 THEN Head(ids)
    ELSE Head(ids) \o <<Bar>> \o JoinBar(Tail(ids))

\* createHash('sha256').update(s).digest('hex'): collision-free, and no
\* character of a digest is a separator or any character of its input; the
\* digest of s is s moved into an alphabet of its own
HexBase == 1000
Sha256Hex(s) == <<HexBase>> \o [i \in 1..Len(s) |-> s[i] + HexBase]

\* const allFlightIds = [...outbound ids, ...return ids].sort().join('|');
\* const tripId = createHash('sha256').update(allFlightIds).digest('hex')
TripIdOfUnsorted(outboundIds, returnIds) == Sha256Hex(JoinBar(outboundIds \o returnIds))
TripIdOf(outboundIds, returnIds) ==
    Sha256Hex(JoinBar(SortStrings(outboundIds \o returnIds)))

\* s.toUpperCase() on ASCII
ToUpperCase(s) == [i \in 1..Len(s) |-> IF s[i] \in 97..122 THEN s[i] - 32 ELSE s[i]]

\* ------------------------------------------------------- TimeNormalizer
IsSpace(c) == c \in {32, 9, 10, 13}
At(s, i) == IF i \in 1..Len(s) THEN s[i] ELSE 0
DigitAt(s, i) == IsDigit(At(s, i))

\* s.trim()
RECURSIVE TrimLeft(_)
TrimLeft(s) == IF s # <<>> /\ IsSpace(Head(s)) THEN TrimLeft(Tail(s)) ELSE s
RECURSIVE TrimRight(_)
TrimRight(s) ==
    IF s # <<>> /\ IsSpace(s[Len(s)]) THEN TrimRight(SubSeq(s, 1, Len(s) - 1)) ELSE s
Trim(s) == TrimRight(TrimLeft(s))

\* /^\d{1,2}:\d{2}(:\d{2})?$/ with an hour of hl digits
Is24HourWith(s, hl) ==
    /\ \A i \in 1..hl : DigitAt(s, i)
    /\ At(s, hl + 1) = Colon
    /\ DigitAt(s, hl + 2) /\ DigitAt(s, hl + 3)
    /\ \/ Len(s) = hl + 3
       \/ /\ Len(s) = hl + 6
          /\ At(s, hl + 4) = Colon
          /\ DigitAt(s, hl + 5) /\ DigitAt(s, hl + 6)
Is24Hour(s) == Is24HourWith(s, 1) \/ Is24HourWith(s, 2)

\* \s*(AM|PM) with the i flag, from position j: the position of the A or P,
\* 0 when there is no match
RECURSIVE PeriodAt(_, _)
PeriodAt(s, j) ==
    IF IsSpace(At(s, j)) THEN PeriodAt(s, j + 1)
    ELSE IF At(s, j) \in {65, 97, 80, 112} /\ At(s, j + 1) \in {77, 109} THEN j
    ELSE 0

\* /(\d{1,2}):(\d{2})(:(\d{2}))?\s*(AM|PM)/i matched at position i with an
\* hour of hl digits: <<hours, minutes, seconds, isPM>> or <<>>
Match12At(s, i, hl) ==
    LET r == i + hl + 3
        head == /\ \A k \in i..(i + hl - 1) : DigitAt(s, k)
                /\ At(s, i + hl) = Colon
                /\ DigitAt(s, i + hl + 1) /\ DigitAt(s, i + hl + 2)
        withSec == /\ At(s, r) = Colon /\ DigitAt(s, r + 1) /\ DigitAt(s, r + 2)
                   /\ PeriodAt(s, r + 3) # 0
        hours == IF hl = 2 THEN 10 * DigitVal(s[i]) + DigitVal(s[i + 1])
                 ELSE DigitVal(s[i])
        minutes == SubSeq(s, i + hl + 1, i + hl + 2)
    IN IF ~head THEN <<>>
       ELSE IF withSec
            THEN <<hours, minutes, SubSeq(s, r + 1, r + 2),
                   At(s, PeriodAt(s, r + 3)) \in {80, 112}>>
       ELSE IF PeriodAt(s, r) # 0
            THEN <<hours, minutes, <<48, 48>>, At(s, PeriodAt(s, r)) \in {80, 112}>>
       ELSE <<>>

\* the leftmost match, the longer hour first
RECURSIVE Match12From(_, _)
RECURSIVE FirstMatch(_, _, _, _)
FirstMatch(s, i, m2, m1) ==
    IF m2 # <<>> THEN m2
    ELSE IF m1 # <<>> THEN m1
    ELSE Match12From(s, i + 1)
Match12From(s, i) ==
    IF i > Len(s) THEN <<>>
    ELSE FirstMatch(s, i, Match12At(s, i, 2), Match12At(s, i, 1))

\* `${hours.padStart(2, '0')}:${minutes}:${seconds || '00'}` of a 24-hour text
Format24(cleaned, hl) ==
    (IF hl = 1 THEN <<48>> ELSE <<>>) \o SubSeq(cleaned, 1, hl)
    \o <<Colon>> \o SubSeq(cleaned, hl + 2, hl + 3) \o <<Colon>>
    \o (IF Len(cleaned) = hl + 6 THEN SubSeq(cleaned, hl + 5, hl + 6) ELSE <<48, 48>>)

\* every PM hour moved to the afternoon, noon included
Hours24NoonMoved(hours, isPM) == IF isPM THEN hours + 12 ELSE IF hours = 12 THEN 0 ELSE hours
\* if (period === 'PM' && hours !== 12) hours += 12;
\* else if (period === 'AM' && hours === 12) hours = 0
Hours24(hours, isPM) ==
    IF isPM /\ hours # 12 THEN hours + 12
    ELSE IF ~isPM /\ hours = 12 THEN 0
    ELSE hours

\* the 12-hour branch for the match m, and the fall-through return cleaned
Format12(cleaned, m) ==
    IF m # <<>>
    THEN Pad2(Hours24(m[1], m[4])) \o <<Colon>> \o m[2] \o <<Colon>> \o m[3]
    ELSE cleaned

ParseCleaned(cleaned) ==
    IF Is24Hour(cleaned)
    THEN Format24(cleaned, IF Is24HourWith(cleaned, 2) THEN 2 ELSE 1)
    ELSE Format12(cleaned, Match12From(cleaned, 1))

\* parseTimeTo24Hour; the null result is the empty string (both are falsy)
parseTimeTo24Hour(timeStr) ==
    IF timeStr = <<>> THEN NullStr ELSE ParseCleaned(Trim(timeStr))

\* A date label is what the extractor's date pattern captured: day number,
\* month (1..12 for Jan..Dec) and year; NullDate when the pattern failed.
NullDate == [isNull |-> TRUE, day |-> 0, mon |-> 0, year |-> 0]
Num4(n) == << Digit(n \div 1000), Digit((n \div 100) % 10),
              Digit((n \div 10) % 10), Digit(n % 10) >>

\* convertDateToYYYYMMDD; the null result is the empty string
convertDateToYYYYMMDD(dateStr) ==
    IF dateStr.isNull THEN NullStr
    ELSE Num4(dateStr.year) \o <<Dash>> \o Pad2(dateStr.mon) \o <<Dash>> \o Pad2(dateStr.day)

\* ------------------------------------------------------ MarkupExtractor
\* A document is the sequence of its div.search_modal blocks, each given by
\* what the selectors find in it: the outbound and return headings and
\* panels, the leg sub-panels with their texts, and the provider rows.
FN_LH1 == <<76, 72, 49>>
FN_LH2 == <<76, 72, 50>>
FN_BA7 == <<66, 65, 55>>
AP_BER == <<66, 69, 82>>
AP_MUC == <<77, 85, 67>>
AP_LHR == <<76, 72, 82>>
T_905 == <<57, 58, 48, 53>>
T_1015 == <<49, 48, 58, 49, 53>>
T_1130 == <<49, 49, 58, 51, 48>>
T_230PM == <<50, 58, 51, 48, 32, 80, 77>>
T_1830 == <<49, 56, 58, 51, 48>>
T_2000 == <<50, 48, 58, 48, 48>>
AL_LH == <<76, 117, 102, 116>>
AL_BA == <<66, 114, 105, 116>>
PV_X == <<88>>
PV_Y == <<89>>

NoSection == [found |-> FALSE, date |-> NullDate, departure |-> NullStr,
              arrival |-> NullStr, origin |-> NullStr, destination |-> NullStr,
              airline |-> NullStr, legs |-> <<>>]

LegPanel(fn, airline, dep, arr, o, d) ==
    [flightNumber |-> fn, airline |-> airline, departure |-> dep, arrival |-> arr,
     origin |-> o, destination |-> d, arrivalDate |-> NullDate]

DateLabel(d) == [isNull |-> FALSE, day |-> d, mon |-> 12, year |-> 2025]

\* a heading with its adjacent div._panel
SectionPanel(date, dep, arr, o, d, airline, legPanels) ==
    [heading |-> TRUE, panel |-> TRUE, date |-> date, departure |-> dep,
     arrival |-> arr, origin |-> o, destination |-> d, airline |-> airline,
     legPanels |-> legPanels]
NoHeading ==
    [heading |-> FALSE, panel |-> FALSE, date |-> NullDate, departure |-> NullStr,
     arrival |-> NullStr, origin |-> NullStr, destination |-> NullStr,
     airline |-> NullStr, legPanels |-> <<>>]

\* a provider row: price is the number that the price pattern and
\* parseFloat read from the row, 0 when the pattern does not match
PriceRow(provider, price, link) == [provider |-> provider, price |-> price, link |-> link]

BlockA(price, link) ==
    [outbound |-> SectionPanel(DateLabel(11), T_905, T_1015, AP_BER, AP_MUC, AL_LH,
                     << LegPanel(FN_LH1, AL_LH, T_905, T_1015, AP_BER, AP_MUC) >>),
     ret |-> NoHeading,
     priceRows |-> << PriceRow(PV_X, price, link) >>, throws |-> FALSE]

BlockB ==
    [outbound |-> SectionPanel(DateLabel(11), T_905, T_230PM, AP_BER, AP_LHR, AL_LH,
                     << LegPanel(FN_LH1, AL_LH, T_905, T_1015, AP_BER, AP_MUC),
                        LegPanel(FN_LH2, AL_LH, T_1130, T_230PM, AP_MUC, AP_LHR) >>),
     ret |-> SectionPanel(DateLabel(12), T_1830, T_2000, AP_LHR, AP_BER, AL_BA,
                     << LegPanel(FN_BA7, AL_BA, T_1830, T_2000, AP_LHR, AP_BER) >>),
     priceRows |-> << PriceRow(PV_Y, 300, "y1"), PriceRow(PV_X, 250, "x1") >>, throws |-> FALSE]

\* a block whose provider rows carry no parseable price
BlockNoPrice ==
    [outbound |-> SectionPanel(DateLabel(11), T_905, T_1015, AP_BER, AP_MUC, AL_LH,
                     << LegPanel(FN_LH1, AL_LH, T_905, T_1015, AP_BER, AP_MUC) >>),
     ret |-> NoHeading,
     priceRows |-> << PriceRow(PV_X, 0, "") >>, throws |-> FALSE]

\* a block on which a selector or a text operation of the extraction throws
BlockThrows == [BlockA(100, "a1") EXCEPT !.throws = TRUE]

\* cheerio.load(body) and $('div.search_modal'): text that is not markup
\* holds no block
DocumentOf(body) ==
    CASE body = "docA1" -> << BlockA(100, "a1") >>
      [] body = "docA2" -> << BlockA(90, "a2") >>
      [] body = "docB" -> << BlockB, BlockNoPrice >>
      [] OTHER -> <<>>

\* extractFlightFromSection: null (found = FALSE) without heading or panel;
\* a leg is kept only with both times and both airport codes
extractFlightFromSection(sec) ==
    IF ~sec.heading \/ ~sec.panel THEN NoSection
    ELSE [found |-> TRUE, date |-> sec.date, departure |-> sec.departure,
          arrival |-> sec.arrival, origin |-> sec.origin,
          destination |-> sec.destination, airline |-> sec.airline,
          legs |-> SelectSeq(sec.legPanels,
                     LAMBDA l : l.departure # <<>> /\ l.arrival # <<>>
                                /\ l.origin # <<>> /\ l.destination # <<>>)]

\* extractPricesFromSimilar: the rows whose price text matches
extractPricesFromSimilar(block) ==
    SelectSeq(block.priceRows, LAMBDA r : r.price # 0)

MinPrice(prices) ==
    CHOOSE v \in { prices[i].price : i \in 1..Len(prices) } :
        \A j \in 1..Len(prices) : v <= prices[j].price

\* extractFlightFromSearchModal: null (found = FALSE) without an outbound
\* section or without a price
NoItinerary ==
    [found |-> FALSE, price |-> 0, prices |-> <<>>, outbound |-> NoSection, ret |-> NoSection]
extractFlightFromSearchModal(block) ==
    LET outboundFlight == extractFlightFromSection(block.outbound)
        returnFlight == IF block.ret.heading THEN extractFlightFromSection(block.ret)
                        ELSE NoSection
        prices == extractPricesFromSimilar(block)
    IN IF ~outboundFlight.found THEN NoItinerary
       ELSE IF prices = <<>> THEN NoItinerary
       ELSE [found |-> TRUE, price |-> MinPrice(prices), prices |-> prices,
             outbound |-> outboundFlight, ret |-> returnFlight]

\* extractFlights: the blocks that yield an itinerary with a price, in
\* document order
\* an exception in a block ends the .each loop: the itineraries pushed so far
RECURSIVE ExtractBlocksAbort(_)
ExtractBlocksAbort(blocks) ==
    IF blocks = <<>> \/ Head(blocks).throws THEN <<>>
    ELSE LET flight == extractFlightFromSearchModal(Head(blocks))
         IN (IF flight.found /\ flight.price # 0 THEN <<flight>> ELSE <<>>)
            \o ExtractBlocksAbort(Tail(blocks))
\* try { ... } catch (e) { /* skip this flight */ } around every block
RECURSIVE ExtractBlocks(_)
ExtractBlocks(blocks) ==
    IF blocks = <<>> THEN <<>>
    ELSE IF Head(blocks).throws THEN ExtractBlocks(Tail(blocks))
    ELSE LET flight == extractFlightFromSearchModal(Head(blocks))
         IN (IF flight.found /\ flight.price # 0 THEN <<flight>> ELSE <<>>)
            \o ExtractBlocks(Tail(blocks))
extractFlights(body) == ExtractBlocks(DocumentOf(body))

\* ------------------------------------------------------- PollCoordinator
\* field 6 of the response, percent-decoded when it contains a %
PayloadBody(parts) ==
    LET body == IF Len(parts) > 6 THEN parts[7] ELSE ""
    IN IF body # "" /\ HasPercent(body) /\ ~DecodeThrows(body)
       THEN DecodeURIComponent(body)
       ELSE body

\* parts.length > 0 && parts[0] === 'Y'
FinishedFlagNotN(parts) == Len(parts) > 0 /\ parts[1] # "N"
FinishedFlag(parts) == Len(parts) > 0 /\ parts[1] = "Y"

PollFailureSwallowed(cookies) ==
    [status |-> 0, finished |-> FALSE, flights |-> <<>>, cookies |-> cookies,
     success |-> TRUE, extracted |-> FALSE]
PollFailure(cookies) ==
    [status |-> 0, finished |-> FALSE, flights |-> <<>>, cookies |-> cookies,
     success |-> FALSE, extracted |-> FALSE]
PollNotFinishedAsFailure(status, cookies) ==
    [status |-> status, finished |-> FALSE, flights |-> <<>>, cookies |-> cookies,
     success |-> FALSE, extracted |-> FALSE]
PollNotFinished(status, cookies) ==
    [status |-> status, finished |-> FALSE, flights |-> <<>>, cookies |-> cookies,
     success |-> TRUE, extracted |-> FALSE]
\* the tail of both pollRequest functions; extracted records that
\* extractFlights was called
PollParsedNeverFinished(r, cookies) ==
    [status |-> r.status, finished |-> FALSE, flights |-> <<>>, cookies |-> cookies,
     success |-> TRUE, extracted |-> FALSE]
PollParsed(r, cookies) ==
    LET finished == FinishedFlag(r.parts)
    IN [status |-> r.status, finished |-> finished,
        flights |-> IF finished THEN extractFlights(PayloadBody(r.parts)) ELSE <<>>,
        cookies |-> cookies, success |-> TRUE, extracted |-> finished]

\* pollRequest of the shared service (and its verbatim copy inside the
\* FlightScraper step): the cookies of the caller are returned as they came
pollRequest(data, cookies, r) ==
    IF r.throws THEN PollFailure(cookies)
    ELSE IF r.status = 504 \/ Includes504(r.parts) THEN PollNotFinished(r.status, cookies)
    ELSE PollParsed(r, cookies)

\* pollRequest of the library: merges the set-cookie header, and takes a
\* 504 page and a not-found page for a poll that is not finished
pollRequestLib(data, cookies, r) ==
    LET updatedCookies == MergeCookies(cookies, r.setCookie)
    IN IF r.throws THEN PollFailure(cookies)
       ELSE IF r.status = 504 \/ Includes504(r.parts)
            THEN PollNotFinished(r.status, updatedCookies)
       ELSE IF r.status = 404 \/ Includes404(r.parts)
            THEN PollNotFinished(r.status, updatedCookies)
       ELSE PollParsed(r, updatedCookies)

PollRequestOf(i, data, cookies, r) ==
    IF i = "fetchSkyscanner" THEN pollRequestLib(data, cookies, r)
    ELSE pollRequest(data, cookies, r)

\* ------------------------------------------------------ IdentityAssigner
EmptyMap == << >>
\* Map.set(id, rec) of the record maps
MapPut(m, id, rec) == [x \in (DOMAIN m) \cup {id} |-> IF x = id THEN rec ELSE m[x]]
RECURSIVE MapPutAll(_, _)
MapPutAll(m, recs) ==
    IF recs = <<>> THEN m ELSE MapPutAll(MapPut(m, Head(recs).id, Head(recs)), Tail(recs))

\* a || b on strings
OrElse(a, b) == IF a # <<>> THEN a ELSE b
S_null == <<110, 117, 108, 108>>
\* `${x}` of a possibly null string
Interpolate(a) == IF a # <<>> THEN a ELSE S_null

\* `${flightNumber}_${origin}_${departureDate}_${departureTime}`
FlightIdOf(flightNumber, origin, date, time) ==
    flightNumber \o <<Underscore>> \o origin \o <<Underscore>> \o date
    \o <<Underscore>> \o time
\* `outbound_${flightId}_${tripId}` and `inbound_${flightId}_${tripId}`
LegIdOf(inbound, flightId, tripId) ==
    (IF inbound THEN S_inbound_ ELSE S_outbound_) \o flightId \o <<Underscore>> \o tripId
\* `${tripId}_skyscanner_${provider}`
DealIdOf(tripId, provider) == tripId \o S__skyscanner_ \o provider

\* ----------------------------------------------------------- InMemoryDB
\* the character of a six-bit value in the base64 alphabet
Base64Char(n) ==
    IF n < 26 THEN 65 + n
    ELSE IF n < 52 THEN 97 + (n - 26)
    ELSE IF n < 62 THEN 48 + (n - 52)
    ELSE IF n = 62 THEN 43 ELSE 47
\* the four characters of three bytes
Base64Group(b1, b2, b3) ==
    << Base64Char(b1 \div 4), Base64Char(((b1 % 4) * 16) + (b2 \div 16)),
       Base64Char(((b2 % 16) * 4) + (b3 \div 64)), Base64Char(b3 % 64) >>
\* Buffer.from(s).toString('base64') of an ASCII string, '=' padded
RECURSIVE Base64(_)
Base64(s) ==
    IF s = <<>> THEN <<>>
    ELSE IF Len(s) = 1 THEN SubSeq(Base64Group(s[1], 0, 0), 1, 2) \o <<61, 61>>
    ELSE IF Len(s) = 2 THEN SubSeq(Base64Group(s[1], s[2], 0), 1, 3) \o <<61>>
    ELSE Base64Group(s[1], s[2], s[3]) \o Base64(SubSeq(s, 4, Len(s)))
\* .replace(/[/+=]/g, '').substring(0, 64)
StripAndCut(s) ==
    LET kept == SelectSeq(s, LAMBDA c : c \notin {47, 43, 61})
    IN SubSeq(kept, 1, IF Len(kept) < 64 THEN Len(kept) ELSE 64)
\* InMemoryDB.generateTripId, from the flight ids of the outbound and inbound legs
generateTripId(outboundIds, inboundIds) ==
    StripAndCut(Base64(JoinBar(SortStrings(outboundIds \o inboundIds))))
\* InMemoryDB.generateFlightId: `${flightNumber}_${departure.date}_${departure.time}`
generateFlightId(flightNumber, date, time) ==
    flightNumber \o <<Underscore>> \o date \o <<Underscore>> \o time
\* InMemoryDB.generateDealId: `${tripId}_${provider}`
generateDealId(tripId, provider) == tripId \o <<Underscore>> \o provider

FlightRec(id, leg, depDate, depTime, arrDate, arrTime) ==
    [id |-> id, flight_number |-> leg.flightNumber, origin |-> leg.origin,
     destination |-> leg.destination, departure_date |-> depDate,
     departure_time |-> depTime, arrival_date |-> arrDate, arrival_time |-> arrTime,
     airline |-> leg.airline]
\* a leg that names its flight by the leg id
LegRecOwnId(inbound, flightId, tripId, order) ==
    [id |-> LegIdOf(inbound, flightId, tripId), trip |-> tripId,
     flight |-> LegIdOf(inbound, flightId, tripId), inbound |-> inbound, order |-> order]
LegRec(inbound, flightId, tripId, order) ==
    [id |-> LegIdOf(inbound, flightId, tripId), trip |-> tripId, flight |-> flightId,
     inbound |-> inbound, order |-> order]

\* leg.arrivalDate ? convertDateToYYYYMMDD(leg.arrivalDate) || d : d
ArrivalDateOf(leg, d) ==
    IF leg.arrivalDate.isNull THEN d ELSE OrElse(convertDateToYYYYMMDD(leg.arrivalDate), d)

Indices(s) == [i \in 1..Len(s) |-> i]
Ids(fs) == [i \in 1..Len(fs) |-> fs[i].id]

EmptyMaps == [flights |-> EmptyMap, trips |-> EmptyMap, legs |-> EmptyMap, deals |-> EmptyMap]

\* the Flight, Trip and Deal maps of the InMemoryDB
\* events is what the listeners of the emitter have been sent, the name of
\* each event with the identifier of its record
EmptyDb == [flights |-> EmptyMap, trips |-> EmptyMap, deals |-> EmptyMap, events |-> <<>>]
\* an add that tells the listeners every time
addFlightEmitsAlways(d, flight) ==
    [d EXCEPT !.flights = MapPut(@, flight.id, flight),
              !.events = Append(@, <<"flight:added", flight.id>>)]
\* addFlight: isNew = !this.flights.has(flight.id); set; if (isNew) emit
addFlight(d, flight) ==
    [d EXCEPT !.flights = MapPut(@, flight.id, flight),
              !.events = IF flight.id \in DOMAIN d.flights THEN @
                         ELSE Append(@, <<"flight:added", flight.id>>)]
addTrip(d, trip) ==
    [d EXCEPT !.trips = MapPut(@, trip.id, trip),
              !.events = IF trip.id \in DOMAIN d.trips THEN @
                         ELSE Append(@, <<"trip:added", trip.id>>)]
\* createFlightsFromLegs: a Flight for every leg with a flight number, a
\* departure time, both airport codes and a section date that converts
createFlightsFromLegs(legs, sectionDate) ==
    LET date == convertDateToYYYYMMDD(sectionDate)
        kept == SelectSeq(legs, LAMBDA l : /\ l.flightNumber # <<>> /\ l.departure # <<>>
                                           /\ l.origin # <<>> /\ l.destination # <<>>
                                           /\ parseTimeTo24Hour(l.departure) # <<>>
                                           /\ date # <<>>)
    IN [i \in 1..Len(kept) |->
          [id |-> generateFlightId(kept[i].flightNumber, date, parseTimeTo24Hour(kept[i].departure)),
           flightNumber |-> kept[i].flightNumber, origin |-> kept[i].origin,
           destination |-> kept[i].destination, date |-> date,
           time |-> parseTimeTo24Hour(kept[i].departure)]]
\* addDeal: the deal is kept under generateDealId(deal.trip, deal.provider)
addDeal(d, deal) ==
    LET dealId == generateDealId(deal.trip, deal.provider)
    IN [d EXCEPT !.deals = MapPut(@, dealId, deal),
                 !.events = IF dealId \in DOMAIN d.deals THEN @
                            ELSE Append(@, <<"deal:added", dealId>>)]
\* clear(): the three collections are emptied and 'db:cleared' is emitted
clear(d) == [EmptyDb EXCEPT !.events = Append(d.events, <<"db:cleared", <<>> >>)]
\* db.addFlight(flight) for every flight that createFlightsFromLegs builds
RECURSIVE AddFlights(_, _)
AddFlights(d, flights) ==
    IF flights = <<>> THEN d ELSE AddFlights(addFlight(d, Head(flights)), Tail(flights))
\* db.addDeal for every provider row of the itinerary, last_update being now
RECURSIVE AddDeals(_, _, _, _)
AddDeals(d, tripId, prices, now) ==
    IF prices = <<>> THEN d
    ELSE AddDeals(addDeal(d, [trip |-> tripId, price |-> Head(prices).price,
                              provider |-> Head(prices).provider, link |-> Head(prices).link,
                              last_update |-> now]),
                  tripId, Tail(prices), now)
\* what the extraction of one itinerary with a price writes to db
DbAddItinerary(d, fd, now) ==
    LET outboundFlights == createFlightsFromLegs(fd.outbound.legs, fd.outbound.date)
        inboundFlights == IF fd.ret.found THEN createFlightsFromLegs(fd.ret.legs, fd.ret.date)
                          ELSE <<>>
        tripId == generateTripId(Ids(outboundFlights), Ids(inboundFlights))
        trip == [id |-> tripId, outboundLegs |-> Ids(outboundFlights),
                 inboundLegs |-> Ids(inboundFlights)]
    IN AddDeals(addTrip(AddFlights(d, outboundFlights \o inboundFlights), trip),
                tripId, fd.prices, now)
RECURSIVE DbAddAll(_, _, _)
DbAddAll(d, fds, now) ==
    IF fds = <<>> THEN d ELSE DbAddAll(DbAddItinerary(d, Head(fds), now), Tail(fds), now)

\* ------------------------------------------------------ normalized times
\* Every time of a section or of a leg panel reaches the records through
\* parseTimeTo24Hour(x.departure) and parseTimeTo24Hour(x.arrival) only, at
\* each place of use; here they are normalized once, before the records
\* are built.
NormalizedTimes(x) ==
    [x EXCEPT !.departure = parseTimeTo24Hour(@), !.arrival = parseTimeTo24Hour(@)]
NormalizedSection(sec) ==
    [NormalizedTimes(sec) EXCEPT !.legs = [i \in 1..Len(@) |-> NormalizedTimes(@[i])]]
NormalizedItinerary(fd) ==
    [fd EXCEPT !.outbound = NormalizedSection(@), !.ret = NormalizedSection(@)]

\* ------------------------------------------- records of FlightScraperRange
\* ctx is the request and the combination: origin, destination,
\* departureDate, returnDate (empty for one way)
LegComplete(leg) ==
    /\ leg.departure # <<>> /\ leg.arrival # <<>>
    /\ leg.origin # <<>> /\ leg.destination # <<>>

\* the flight of a leg that passed the check
RangeFlight(leg, date) ==
    FlightRec(FlightIdOf(OrElse(leg.flightNumber, S_UNKNOWN), leg.origin, date,
                         leg.departure),
              leg, date, leg.departure, ArrivalDateOf(leg, date), leg.arrival)

\* the fallback flight of a return leg, date possibly empty
FallbackFlight(leg, date) ==
    LET dep == OrElse(leg.departure, S_0000)
    IN FlightRec(FlightIdOf(OrElse(leg.flightNumber, S_UNKNOWN), OrElse(leg.origin, S_XXX),
                            date, dep),
                 leg, date, dep, date, OrElse(leg.arrival, dep))

\* the flight of an outbound section without leg panels
SingleFlight(outbound, date) ==
    LET leg == [flightNumber |-> outbound.airline, airline |-> outbound.airline,
                origin |-> outbound.origin, destination |-> outbound.destination]
    IN FlightRec(FlightIdOf(OrElse(outbound.airline, S_UNKNOWN), outbound.origin, date,
                            outbound.departure),
                 leg, date, outbound.departure, date, outbound.arrival)

RangeOutboundFlights(outbound, date) ==
    IF outbound.legs # <<>>
    THEN LET kept == SelectSeq(Indices(outbound.legs),
                               LAMBDA i : LegComplete(outbound.legs[i]))
         IN [k \in 1..Len(kept) |-> RangeFlight(outbound.legs[kept[k]], date)]
    ELSE IF /\ outbound.departure # <<>> /\ outbound.arrival # <<>>
            /\ outbound.origin # <<>> /\ outbound.destination # <<>>
         THEN << SingleFlight(outbound, date) >>
    ELSE <<>>

RangeReturnFlights(ret, isRound) ==
    LET date == convertDateToYYYYMMDD(ret.date)
    IN IF ret.found /\ isRound /\ date # <<>> /\ ret.legs # <<>>
       THEN [i \in 1..Len(ret.legs) |->
                IF LegComplete(ret.legs[i]) THEN RangeFlight(ret.legs[i], date)
                ELSE FallbackFlight(ret.legs[i], date)]
       ELSE <<>>

\* the return-leg loop: every leg panel gets a leg; without a flight in
\* returnFlightMap a fallback flight is created on the spot
ReturnLegFlights(ret, returnFlights) ==
    IF ret.found /\ ret.legs # <<>>
    THEN [i \in 1..Len(ret.legs) |->
             IF i <= Len(returnFlights) THEN returnFlights[i]
             ELSE FallbackFlight(ret.legs[i], convertDateToYYYYMMDD(ret.date))]
    ELSE <<>>

\* a deal whose id carries the price as well
DealRecPriced(tripId, p, tripOrigin, tripDestination, stopCount, isRound, depDate, depTime, retDate, retTime) ==
    [id |-> DealIdOf(tripId, p.provider) \o <<Underscore, p.price>>, trip |-> tripId,
     origin |-> tripOrigin,
     destination |-> tripDestination, stop_count |-> stopCount, is_round |-> isRound,
     departure_date |-> depDate, departure_time |-> depTime, return_date |-> retDate,
     return_time |-> retTime, source |-> "skyscanner", provider |-> p.provider,
     price |-> p.price, link |-> p.link]
DealRec(tripId, p, tripOrigin, tripDestination, stopCount, isRound, depDate, depTime, retDate, retTime) ==
    [id |-> DealIdOf(tripId, p.provider), trip |-> tripId, origin |-> tripOrigin,
     destination |-> tripDestination, stop_count |-> stopCount, is_round |-> isRound,
     departure_date |-> depDate, departure_time |-> depTime, return_date |-> retDate,
     return_time |-> retTime, source |-> "skyscanner", provider |-> p.provider,
     price |-> p.price, link |-> p.link]

\* the trip, the legs and the deals of an itinerary whose flights, trip id
\* and return-leg flights are known
RangeRecords(maps, fd, ctx, outboundFlights, returnFlights, tripId, legFlights) ==
    LET outbound == fd.outbound
        ret == fd.ret
        isRound == ctx.returnDate # <<>>
        flights == MapPutAll(MapPutAll(MapPutAll(maps.flights, outboundFlights),
                                       returnFlights),
                             SubSeq(legFlights, Len(returnFlights) + 1, Len(legFlights)))
        legData == [i \in 1..Len(outboundFlights) |->
                       LegRec(FALSE, outboundFlights[i].id, tripId, i - 1)]
                   \o [i \in 1..Len(legFlights) |->
                       LegRec(TRUE, legFlights[i].id, tripId, i - 1)]
        tripOrigin == IF outboundFlights # <<>>
                      THEN OrElse(flights[outboundFlights[1].id].origin,
                                  ToUpperCase(ctx.origin))
                      ELSE ToUpperCase(ctx.origin)
        tripDestination ==
            IF outboundFlights # <<>>
            THEN OrElse(flights[outboundFlights[Len(outboundFlights)].id].destination,
                        ToUpperCase(ctx.destination))
            ELSE ToUpperCase(ctx.destination)
        stopCount == (IF outbound.legs # <<>> THEN Len(outbound.legs) - 1 ELSE 0)
                     + (IF ret.found /\ ret.legs # <<>> THEN Len(ret.legs) - 1 ELSE 0)
        departureTime == OrElse(outbound.departure, S_0000)
        returnTime == IF ret.found THEN ret.arrival ELSE NullStr
        deals == [i \in 1..Len(fd.prices) |->
                     DealRec(tripId, fd.prices[i], ToUpperCase(tripOrigin),
                             ToUpperCase(tripDestination), stopCount, isRound,
                             ctx.departureDate, departureTime, ctx.returnDate, returnTime)]
    IN [flights |-> flights,
        trips |-> MapPut(maps.trips, tripId, [id |-> tripId]),
        legs |-> MapPutAll(maps.legs, legData),
        deals |-> MapPutAll(maps.deals, deals)]

\* the trip id, from the outbound and return flights
RangeTrip(maps, fd, ctx, outboundFlights, returnFlights) ==
    RangeRecords(maps, fd, ctx, outboundFlights, returnFlights,
                 TripIdOf(Ids(outboundFlights), Ids(returnFlights)),
                 ReturnLegFlights(fd.ret, returnFlights))

\* one pass of `for (const flightData of allFlights)` of FlightScraperRange
ProcessRangeItinerary(maps, fd, ctx) ==
    LET date == convertDateToYYYYMMDD(fd.outbound.date)
    IN IF date = <<>> THEN maps
       ELSE RangeTrip(maps, fd, ctx, RangeOutboundFlights(fd.outbound, date),
                      RangeReturnFlights(fd.ret, ctx.returnDate # <<>>))

RECURSIVE ProcessRange(_, _, _)
ProcessRange(maps, allFlights, ctx) ==
    IF allFlights = <<>> THEN maps
    ELSE ProcessRange(ProcessRangeItinerary(maps, Head(allFlights), ctx),
                      Tail(allFlights), ctx)

\* ------------------------------------------------ records of FlightScraper
\* the flight of a leg with a departure time, in a section with a date
ScraperFlight(leg, date) ==
    FlightRec(FlightIdOf(Interpolate(leg.flightNumber), Interpolate(leg.origin), date,
                         leg.departure),
              leg, date, leg.departure, ArrivalDateOf(leg, date),
              OrElse(leg.arrival, leg.departure))

\* the indices of the legs that get a flight: if (!departureTime || !date) continue
ScraperKept(legs, date) ==
    SelectSeq(Indices(legs), LAMBDA i : legs[i].departure # <<>> /\ date # <<>>)
ScraperFlights(legs, date) ==
    LET kept == ScraperKept(legs, date)
    IN [k \in 1..Len(kept) |-> ScraperFlight(legs[kept[k]], date)]

\* Both copies of the FlightScraper handler build their records the same
\* way up to the return legs: the step file gives a leg to every return
\* flight (order continuing after the outbound legs); the copy that imports
\* the shared services gives a leg to every return leg panel, with a
\* fallback flight for the panels that got no flight (sharedCopy = TRUE).
ScraperRecords(maps, fd, ctx, sharedCopy, outboundFlights, returnFlights, tripId) ==
    LET outbound == fd.outbound
        ret == fd.ret
        isRound == ctx.returnDate # <<>>
        date == convertDateToYYYYMMDD(outbound.date)
        retDate == convertDateToYYYYMMDD(ret.date)
        keptRet == IF ret.found /\ ret.legs # <<>> THEN ScraperKept(ret.legs, retDate)
                   ELSE <<>>
        \* the shared copy: the flight of return leg panel i, by originalLegIndex
        PanelFlight(i) ==
            IF \E k \in 1..Len(keptRet) : keptRet[k] = i
            THEN returnFlights[CHOOSE k \in 1..Len(keptRet) : keptRet[k] = i]
            ELSE FallbackFlight(ret.legs[i], retDate)
        fallbacks == IF sharedCopy /\ ret.found
                     THEN LET missing == SelectSeq(Indices(ret.legs),
                                  LAMBDA i : \A k \in 1..Len(keptRet) : keptRet[k] # i)
                          IN [k \in 1..Len(missing) |-> PanelFlight(missing[k])]
                     ELSE <<>>
        inboundLegs ==
            IF sharedCopy
            THEN (IF ret.found
                  THEN [i \in 1..Len(ret.legs) |-> LegRec(TRUE, PanelFlight(i).id, tripId, i - 1)]
                  ELSE <<>>)
            ELSE [i \in 1..Len(returnFlights) |->
                     LegRec(TRUE, returnFlights[i].id, tripId, Len(outboundFlights) + i - 1)]
        legData == [i \in 1..Len(outboundFlights) |->
                       LegRec(FALSE, outboundFlights[i].id, tripId, i - 1)]
                   \o inboundLegs
        stopCount == (Len(outbound.legs) - 1)
                     + (IF ret.found THEN Len(ret.legs) - 1 ELSE 0)
        departureTime == OrElse(outbound.departure, S_0000)
        returnTime == IF ret.found THEN ret.departure ELSE NullStr
        deals == [i \in 1..Len(fd.prices) |->
                     DealRec(tripId, fd.prices[i], outboundFlights[1].origin,
                             outboundFlights[Len(outboundFlights)].destination,
                             stopCount, isRound, date, departureTime,
                             ctx.returnDate, returnTime)]
    IN [flights |-> MapPutAll(MapPutAll(MapPutAll(maps.flights, outboundFlights),
                                        returnFlights),
                              fallbacks),
        trips |-> MapPut(maps.trips, tripId, [id |-> tripId]),
        legs |-> MapPutAll(maps.legs, legData),
        deals |-> MapPutAll(maps.deals, deals)]

\* the flights are in the map; without outbound flights the itinerary is
\* skipped, and returnFlight.legs.length of an undefined legs list throws
ScraperTrip(maps, fd, ctx, sharedCopy, outboundFlights, returnFlights) ==
    IF outboundFlights = <<>> \/ (fd.ret.found /\ fd.ret.legs = <<>>)
    THEN [maps EXCEPT !.flights = MapPutAll(MapPutAll(@, outboundFlights), returnFlights)]
    ELSE ScraperRecords(maps, fd, ctx, sharedCopy, outboundFlights, returnFlights,
                        TripIdOf(Ids(outboundFlights), Ids(returnFlights)))

ScraperItinerary(maps, fd, ctx, sharedCopy) ==
    IF fd.outbound.legs = <<>> THEN maps
    ELSE ScraperTrip(maps, fd, ctx, sharedCopy,
                     ScraperFlights(fd.outbound.legs, convertDateToYYYYMMDD(fd.outbound.date)),
                     IF fd.ret.found /\ fd.ret.legs # <<>>
                     THEN ScraperFlights(fd.ret.legs, convertDateToYYYYMMDD(fd.ret.date))
                     ELSE <<>>)

RECURSIVE ProcessScraper(_, _, _, _)
ProcessScraper(maps, allFlights, ctx, sharedCopy) ==
    IF allFlights = <<>> THEN maps
    ELSE ProcessScraper(ScraperItinerary(maps, Head(allFlights), ctx, sharedCopy),
                        Tail(allFlights), ctx, sharedCopy)

\* the record maps that a coordinator builds from the itineraries
BuildNormalized(i, allFlights, ctx) ==
    IF i = "FlightScraperRange" THEN ProcessRange(EmptyMaps, allFlights, ctx)
    ELSE ProcessScraper(EmptyMaps, allFlights, ctx, i = "FlightScraperShared")
BuildRecords(i, allFlights, ctx) ==
    BuildNormalized(i, [k \in 1..Len(allFlights) |-> NormalizedItinerary(allFlights[k])], ctx)

\* ------------------------------------------------------------- requests
\* Dates of a request are days of December 2025; 0 is an absent date.
IsoDate(day) ==
    IF day = 0 THEN NullStr ELSE <<50, 48, 50, 53, 45, 49, 50, 45>> \o Pad2(day)

\* A Date is a count of hours since day 0 began in UTC. The zone of the
\* process is its offset from UTC, in hours, before and after one change.
TimeZone(before, after, change) == [before |-> before, after |-> after, change |-> change]
\* no zone changes its offset in the days of the requests of the deployment
NoChange == TimeZone(0, 0, 0)
LocalTime(tz, t) == t + (IF t < tz.change THEN tz.before ELSE tz.after)
\* the instant of a local time; a local time that the change skips or
\* repeats is read with the offset before the change
UTC(tz, local) ==
    IF ~(local - tz.before < tz.change) /\ local - tz.after >= tz.change
    THEN local - tz.after ELSE local - tz.before
\* new Date('YYYY-MM-DD'): midnight of that day in UTC
ParseDate(day) == 24 * day
\* d.setDate(d.getDate() + 1): the same local time on the next local day
SetNextDate(tz, d) == UTC(tz, LocalTime(tz, d) + 24)
\* d.toISOString().split('T')[0]: the day of the instant in UTC
ToISODate(d) == d \div 24

\* for (let d = new Date(start); d <= end; d.setDate(d.getDate() + 1))
\*     dates.push(d.toISOString().split('T')[0])
RECURSIVE DatesLoop(_, _, _)
DatesLoop(tz, d, end) ==
    IF d <= end THEN <<ToISODate(d)>> \o DatesLoop(tz, SetNextDate(tz, d), end) ELSE <<>>
DaysFromTo(tz, start, end) == DatesLoop(tz, ParseDate(start), ParseDate(end))

\* the combinations of two lists of dates, departure major; one combination
\* per departure date when there is no return date
Combine(departureDates, returnDates) ==
    LET nr == Len(returnDates)
    IN IF nr > 0
       THEN [k \in 1..(Len(departureDates) * nr) |->
                [departureDate |-> departureDates[((k - 1) \div nr) + 1],
                 returnDate |-> returnDates[((k - 1) % nr) + 1]]]
       ELSE [k \in 1..Len(departureDates) |->
                [departureDate |-> departureDates[k], returnDate |-> 0]]

generateDateCombinations(tz, departureDate, departureDateEnd, returnDate, returnDateEnd) ==
    Combine(IF departureDateEnd # 0 THEN DaysFromTo(tz, departureDate, departureDateEnd)
            ELSE <<departureDate>>,
            IF returnDate # 0
            THEN (IF returnDateEnd # 0 THEN DaysFromTo(tz, returnDate, returnDateEnd)
                  ELSE <<returnDate>>)
            ELSE <<>>)

Request(o, d, dep, depEnd, ret, retEnd) ==
    [origin |-> o, destination |-> d, departureDate |-> dep, departureDateEnd |-> depEnd,
     returnDate |-> ret, returnDateEnd |-> retEnd]

\* scrape: one departure date, an optional return date
ScrapeRequests ==
    { Request(AP_BER, AP_MUC, 11, 0, 0, 0),
      Request(AP_BER, AP_LHR, 11, 0, 12, 0) }
\* scrapeRange: the same with an optional last departure date
RangeRequests ==
    { Request(AP_BER, AP_MUC, 11, 0, 0, 0),
      Request(AP_BER, AP_MUC, 11, 12, 0, 0),
      Request(AP_BER, AP_LHR, 11, 0, 12, 0) }
RequestsOf(i) == IF i = "FlightScraperRange" THEN RangeRequests ELSE ScrapeRequests

\* generateQueryId
generateQueryIdAsTyped(origin, destination, departureDate, returnDate) ==
    Sha256Hex(origin \o <<Bar>> \o destination \o <<Bar>> \o departureDate \o <<Bar>> \o returnDate)
generateQueryId(origin, destination, departureDate, returnDate) ==
    Sha256Hex(ToUpperCase(origin) \o <<Bar>> \o ToUpperCase(destination) \o <<Bar>>
              \o departureDate \o <<Bar>> \o returnDate)

\* ---------------------------------------------------------------- store
Tables == <<"flights", "trips", "legs", "deals">>
EmptyStore == [flights |-> EmptyMap, trips |-> EmptyMap, legs |-> EmptyMap,
               deals |-> EmptyMap, fetch_queries |-> EmptyMap]

\* supabase.from(table).upsert(rows, { onConflict: 'id' }): every row
\* replaces the row of the same id or is inserted; no row is removed
UpsertDeferred(table, rows) == table
UpsertReplacing(table, rows) == rows
UpsertKeepOld(table, rows) == [x \in (DOMAIN table) \cup (DOMAIN rows) |->
                                  IF x \in DOMAIN table THEN table[x] ELSE rows[x]]
Upsert(table, rows) == [x \in (DOMAIN table) \cup (DOMAIN rows) |->
                           IF x \in DOMAIN rows THEN rows[x] ELSE table[x]]

\* ---------------------------------------------------------------- state
VARIABLES
    pc,            \* the await at which the running entry point is suspended
    impl,          \* the coordinator of this deployment
    req,           \* the request of the running invocation
    combinations,  \* the date combinations of the request
    comboIdx,      \* the combination being processed (1-based)
    dataObject,    \* the job payload of the initial response
    cookies,       \* let cookies
    finished,      \* let finished
    pollCount,     \* let pollCount
    allFlights,    \* const allFlights
    maps,          \* flightsToInsert, tripsToInsert, legsToInsert, dealsToInsert
    totalTripsScraped,
    successfulCombinations,
    result,        \* what the entry point returned
    store,         \* the five tables of the persistent store
    calls,         \* number of entry-point invocations so far
    \* history of the running search, for the properties
    phase,         \* INITIATED, POLLING, FINISHED or ABORTED
    fault,         \* what went wrong in this search, if anything
    nInitial,      \* initial requests issued by this search
    nPoll,         \* poll requests issued by this search
    nExtract,      \* calls of extractFlights made by this search
    sentCookies,   \* the cookies carried by the last poll request
    lastPoll,      \* the last poll response and what pollRequest returned for it
    initialCookies,\* the cookies issued by the initial response
    pages,         \* the kinds of error page that the polls of this search met
    ended,         \* the outcome of the search that ended in the last step
    log,           \* the ingestions begun so far: request context and itineraries
    outcomes,      \* scrapeRange: how each combination of this invocation ended
    db,            \* export const db = new InMemoryDB() of the library module
    second,        \* a second call of the handler running at the same time: its maps and the upsert it is at
    clearTables,   \* the ClearTables handler: the await it is at and the deletes it has issued
    pure           \* a function of the program applied on its own: arguments and value

vars == << pc, impl, req, combinations, comboIdx, dataObject, cookies, finished,
           pollCount, allFlights, maps, totalTripsScraped, successfulCombinations,
           result, store, calls, phase, fault, nInitial, nPoll, nExtract,
           sentCookies, lastPoll, initialCookies, pages, ended, log, outcomes, db, second, clearTables, pure >>
\* the state of the deployment, which a function applied on its own leaves alone
deployment == << pc, impl, req, combinations, comboIdx, dataObject, cookies, finished,
                pollCount, allFlights, maps, totalTripsScraped, successfulCombinations,
                result, store, calls, phase, fault, nInitial, nPoll, nExtract,
                sentCookies, lastPoll, initialCookies, pages, ended, log, outcomes, db, second, clearTables >>

\* ClearTables has not been called
NoClear == [pc |-> "idle", started |-> {}, deleted |-> {}, failed |-> {},
            counts |-> << >>, returned |-> FALSE, status |-> 0, success |-> FALSE]
NoRequest == Request(NullStr, NullStr, 0, 0, 0, 0)
NoResult == [returned |-> FALSE, status |-> 0, success |-> FALSE, message |-> "",
             tripsScraped |-> 0, combinationsProcessed |-> 0, flights |-> <<>>]
Returned(status, success, message, trips, combos, flights) ==
    [returned |-> TRUE, status |-> status, success |-> success, message |-> message,
     tripsScraped |-> trips, combinationsProcessed |-> combos, flights |-> flights]
NoPoll == [received |-> FALSE,
           response |-> [throws |-> FALSE, status |-> 0, parts |-> <<>>, setCookie |-> <<>>],
           result |-> PollNotFinished(0, NoCookies), body |-> NullData]

NoSecondCall == [pc |-> "none", maps |-> EmptyMaps]

NoApplication == [fn |-> "none", args |-> <<>>, applied |-> FALSE, value |-> <<>>]

NoSummary == [phase |-> "NONE", fault |-> "none", nInitial |-> 0, nPoll |-> 0,
              nExtract |-> 0, flights |-> <<>>]

\* the deployment before invocation number c + 1, the store still empty
Constructed(c) ==
    /\ pc = "idle"
    /\ impl \in Impls
    /\ req = NoRequest
    /\ combinations = <<>>
    /\ comboIdx = 0
    /\ dataObject = NullData
    /\ cookies = NoCookies
    /\ finished = FALSE
    /\ pollCount = 0
    /\ allFlights = <<>>
    /\ maps = EmptyMaps
    /\ totalTripsScraped = 0
    /\ successfulCombinations = 0
    /\ result = NoResult
    /\ store = EmptyStore
    /\ calls = c
    /\ phase = "NONE"
    /\ fault = "none"
    /\ nInitial = 0
    /\ nPoll = 0
    /\ nExtract = 0
    /\ sentCookies = NoCookies
    /\ lastPoll = NoPoll
    /\ initialCookies = NoCookies
    /\ pages = {}
    /\ ended = NoSummary
    /\ log = <<>>
    /\ outcomes = <<>>
    /\ db = EmptyDb
    /\ second = NoSecondCall
    /\ clearTables = NoClear

InitAt(c) == Constructed(c) /\ pure = NoApplication

Init == InitAt(0)
\* the last invocation that MaxCalls allows is the only one
InitLastCall == InitAt(MaxCalls - 1)

\* the request context of the current combination
Ctx == [origin |-> req.origin, destination |-> req.destination,
        departureDate |-> IsoDate(combinations[comboIdx].departureDate),
        returnDate |-> IsoDate(combinations[comboIdx].returnDate)]

\* the request context of combination i
CtxAt(i) == [origin |-> req.origin, destination |-> req.destination,
             departureDate |-> IsoDate(combinations[i].departureDate),
             returnDate |-> IsoDate(combinations[i].returnDate)]

IsRange == impl = "FlightScraperRange"
IsLib == impl = "fetchSkyscanner"

\* the variables of the poll loop, which nothing reads once it is over
ForgetPoll ==
    /\ dataObject' = NullData
    /\ cookies' = NoCookies
    /\ finished' = FALSE
    /\ pollCount' = 0
    /\ sentCookies' = NoCookies
    /\ lastPoll' = NoPoll
    /\ initialCookies' = NoCookies
    /\ pages' = {}

\* a search begins: getRequest is issued and awaited
BeginSearch(idx) ==
    /\ pc' = "init"
    /\ comboIdx' = idx
    /\ ForgetPoll
    /\ allFlights' = <<>>
    /\ maps' = EmptyMaps
    /\ phase' = "INITIATED"
    /\ fault' = "none"
    /\ nInitial' = 1
    /\ nPoll' = 0
    /\ nExtract' = 0

\* the outcome of the running search when it ends in phase ph with fault f
SearchSummary(ph, f) ==
    [phase |-> ph, fault |-> f, nInitial |-> nInitial, nPoll |-> nPoll,
     nExtract |-> nExtract, flights |-> allFlights]

\* the entry point returns r, its last search being in phase ph
Return(r, ph, f) ==
    /\ pc' = "idle"
    /\ result' = r
    /\ phase' = ph
    /\ fault' = f
    /\ ForgetPoll
    /\ allFlights' = <<>>
    /\ maps' = EmptyMaps
    /\ UNCHANGED << comboIdx, nInitial, nPoll, nExtract >>

\* the end of the range loop: return { success: true, tripsScraped, ... }
RangeResultAttempted(trips, combos) ==
    Returned(200, TRUE, "Scraped", trips, Len(combinations), <<>>)
RangeResult(trips, combos) == Returned(200, TRUE, "Scraped", trips, combos, <<>>)

\* FlightScraperRange goes on to the next combination (continue, the catch
\* of the loop body, or the end of the body), or returns after the last
NextCombinationBreaks(trips, combos, ph, f) ==
    /\ totalTripsScraped' = trips
    /\ successfulCombinations' = combos
    /\ Return(RangeResult(trips, combos), ph, f)
NextCombination(trips, combos, ph, f) ==
    /\ totalTripsScraped' = trips
    /\ successfulCombinations' = combos
    /\ IF comboIdx < Len(combinations)
       THEN /\ BeginSearch(comboIdx + 1)
            /\ UNCHANGED result
       ELSE Return(RangeResult(trips, combos), ph, f)

\* the entry point is invoked
StartCall(rq) ==
    /\ pc = "idle"
    /\ calls < MaxCalls
    /\ calls' = calls + 1
    /\ req' = rq
    /\ combinations' = IF IsRange
                       THEN generateDateCombinations(NoChange, rq.departureDate, rq.departureDateEnd,
                                                     rq.returnDate, rq.returnDateEnd)
                       ELSE << [departureDate |-> rq.departureDate,
                                returnDate |-> rq.returnDate] >>
    /\ totalTripsScraped' = 0
    /\ successfulCombinations' = 0
    /\ result' = NoResult
    /\ BeginSearch(1)
    /\ ended' = NoSummary
    /\ outcomes' = <<>>
    /\ UNCHANGED << impl, pure, db, second, clearTables, store, log >>

\* what the initial response r means for the search
InitialFault(r) ==
    IF r.throws THEN "initial transport"
    ELSE IF r.data.isNull \/ r.data.token = "" THEN "no token"
    ELSE "none"

\* the initial request completes with response r
InitialResponse(r) ==
    LET initialResult == getRequest(r)
        f == InitialFault(r)
        ph == IF f = "none" THEN "POLLING" ELSE "ABORTED"
    IN /\ pc = "init"
       /\ UNCHANGED << impl, pure, db, second, clearTables, req, combinations, store, calls, log >>
       /\ outcomes' = IF IsRange /\ f # "none" THEN Append(outcomes, "no search")
                      ELSE outcomes
       /\ IF ~initialResult.success \/ NoToken(initialResult.data)
          THEN \* no retry, no poll: the search is given up
               /\ ended' = SearchSummary(ph, f)
               /\ IF IsRange
                  THEN NextCombination(totalTripsScraped, successfulCombinations, ph, f)
                  ELSE /\ Return(IF IsLib
                                 THEN Returned(0, FALSE,
                                        IF ~initialResult.success THEN "Initial request failed"
                                        ELSE "No data object or token found in initial response",
                                        0, 0, <<>>)
                                 ELSE Returned(500, FALSE,
                                        "Failed to get initial request or token", 0, 0, <<>>),
                                 ph, f)
                       /\ UNCHANGED << totalTripsScraped, successfulCombinations >>
          ELSE \* the loop is entered and the first poll request is issued
               /\ dataObject' = initialResult.data
               /\ cookies' = initialResult.cookies
               /\ finished' = FALSE
               /\ pollCount' = 1
               /\ allFlights' = <<>>
               /\ pc' = "poll"
               /\ phase' = ph
               /\ fault' = f
               /\ nPoll' = nPoll + 1
               /\ sentCookies' = initialResult.cookies
               /\ initialCookies' = r.setCookie
               /\ ended' = NoSummary
               /\ UNCHANGED << comboIdx, maps, totalTripsScraped, successfulCombinations,
                               result, nInitial, nExtract, lastPoll, pages >>

\* the kind of a poll response: a transport failure, a gateway time-out
\* page, a not-found page, or the completion flag of the data text
Is504Page(r) == ~r.throws /\ (r.status = 504 \/ Includes504(r.parts))
Is404Page(r) == ~r.throws /\ ~Is504Page(r) /\ (r.status = 404 \/ Includes404(r.parts))
IsErrorPage(r) == Is504Page(r) \/ Is404Page(r)

\* if (pollResult.cookies) cookies = pollResult.cookies
NextCookiesKept(cookies_, pollResult) == cookies_
NextCookies(cookies_, pollResult) ==
    IF pollResult.cookies # NoCookies THEN pollResult.cookies ELSE cookies_

\* Date.now().toString() at a poll request: the clock of a search, which
\* the wait before every further poll advances
Now == ToString(pollCount)
\* a request body of the nonce alone
PollBodyNonceOnly(data, now) == [isNull |-> FALSE, token |-> "", noc |-> now]
\* const dataWithUpdatedNoc = { ...data }; dataWithUpdatedNoc['noc'] = now:
\* the fields of the request body of a poll
PollBody(data, now) == [data EXCEPT !.noc = now]

\* the loop body without its setTimeout: the next poll follows at once
HandlePollResultNoWait(r, pollResult) ==
    /\ lastPoll' = [received |-> TRUE, response |-> r, result |-> pollResult,
                    body |-> PollBody(dataObject, Now)]
    /\ nExtract' = IF pollResult.extracted THEN nExtract + 1 ELSE nExtract
    /\ IF ~pollResult.success
       THEN /\ pc' = "after"
            /\ UNCHANGED << cookies, finished, allFlights >>
       ELSE /\ cookies' = NextCookies(cookies, pollResult)
            /\ finished' = pollResult.finished
            /\ allFlights' = IF pollResult.finished /\ pollResult.flights # <<>>
                             THEN allFlights \o pollResult.flights
                             ELSE allFlights
            /\ pc' = IF pollResult.finished THEN "after" ELSE "poll"
\* the body of the loop after `const pollResult = await pollRequest(...)`
HandlePollResult(r, pollResult) ==
    /\ lastPoll' = [received |-> TRUE, response |-> r, result |-> pollResult,
                    body |-> PollBody(dataObject, Now)]
    /\ nExtract' = IF pollResult.extracted THEN nExtract + 1 ELSE nExtract
    /\ IF ~pollResult.success
       THEN \* break
            /\ pc' = "after"
            /\ UNCHANGED << cookies, finished, allFlights >>
       ELSE /\ cookies' = NextCookies(cookies, pollResult)
            /\ finished' = pollResult.finished
            /\ allFlights' = IF pollResult.finished /\ pollResult.flights # <<>>
                             THEN allFlights \o pollResult.flights
                             ELSE allFlights
            /\ pc' = IF pollResult.finished THEN "after" ELSE "wait"

\* the poll request completes with response r
PollResponse(r) ==
    /\ pc = "poll"
    /\ HandlePollResult(r, PollRequestOf(impl, dataObject, cookies, r))
    /\ phase' = IF r.throws THEN "ABORTED"
                ELSE IF IsTerminalResponse(r) THEN "FINISHED" ELSE phase
    /\ fault' = IF r.throws THEN "poll transport" ELSE fault
    /\ pages' = pages \cup (IF Is504Page(r) THEN {"504"} ELSE {})
                      \cup (IF Is404Page(r) THEN {"404"} ELSE {})
    /\ ended' = NoSummary
    /\ db' = IF IsLib
             THEN DbAddAll(db, PollRequestOf(impl, dataObject, cookies, r).flights, calls)
             ELSE db
    /\ UNCHANGED << impl, pure, second, clearTables, req, combinations, comboIdx, dataObject, pollCount, maps,
                    totalTripsScraped, successfulCombinations, result, store, calls,
                    nInitial, nPoll, sentCookies, initialCookies, log, outcomes >>

\* while (!finished && pollCount < maxPolls)
LoopConditionOffByOne(finished_, pollCount_) == ~finished_ /\ pollCount_ <= maxPolls
LoopCondition(finished_, pollCount_) == ~finished_ /\ pollCount_ < maxPolls

\* the delay after a poll that is not finished is over: the loop condition
\* is tested, and the next poll request is issued if it holds
WaitDone ==
    /\ pc = "wait"
    /\ IF LoopCondition(finished, pollCount)
       THEN /\ pollCount' = pollCount + 1
            /\ nPoll' = nPoll + 1
            /\ sentCookies' = cookies
            /\ lastPoll' = NoPoll
            /\ pc' = "poll"
       ELSE /\ pc' = "after"
            /\ UNCHANGED << pollCount, nPoll, sentCookies, lastPoll >>
    /\ ended' = NoSummary
    /\ UNCHANGED << impl, pure, db, second, clearTables, req, combinations, comboIdx, dataObject, cookies, finished,
                    allFlights, maps, totalTripsScraped, successfulCombinations, result,
                    store, calls, phase, fault, nInitial, nExtract, initialCookies,
                    pages, log, outcomes >>

\* return { status: 200, body: { success: true, message: 'No flights found', ... } }
NoFlightsResultFailed == Returned(200, FALSE, "No flights found", 0, 0, <<>>)
NoFlightsResult == Returned(200, TRUE, "No flights found", 0, 0, <<>>)

\* the first table from position k on whose record map is not empty
\* (if (map.size > 0) await upsert), else the fetch_queries upsert
\* the trips written before the flights
NextUpsertTripsFirst(m, k) ==
    IF k = 1 THEN "trips" ELSE IF k = 3 THEN "flights" ELSE IF k = 2 THEN "legs"
    ELSE IF k = 4 THEN "deals" ELSE "fetch_queries"
RECURSIVE NextUpsert(_, _)
NextUpsert(m, k) ==
    IF k > Len(Tables) THEN "fetch_queries"
    ELSE IF DOMAIN m[Tables[k]] # {} THEN Tables[k]
    ELSE NextUpsert(m, k + 1)
TableIdx(t) == CHOOSE k \in 1..Len(Tables) : Tables[k] = t

\* the code between the end of the poll loop and the next await
AfterLoop ==
    /\ pc = "after"
    /\ ended' = SearchSummary(phase, fault)
    /\ outcomes' = IF IsRange /\ allFlights = <<>> THEN Append(outcomes, "no flights")
                   ELSE outcomes
    /\ UNCHANGED << impl, pure, db, second, clearTables, req, combinations, store, calls >>
    /\ log' = IF ~IsLib /\ allFlights # <<>>
              THEN Append(log, [ctx |-> Ctx, flights |-> allFlights])
              ELSE log
    /\ IF IsLib
       THEN /\ Return(Returned(0, TRUE, "", 0, 0, allFlights), phase, fault)
            /\ UNCHANGED << totalTripsScraped, successfulCombinations >>
       ELSE IF allFlights = <<>>
       THEN IF IsRange
            THEN NextCombination(totalTripsScraped, successfulCombinations, phase, fault)
            ELSE /\ Return(NoFlightsResult, phase, fault)
                 /\ UNCHANGED << totalTripsScraped, successfulCombinations >>
       ELSE /\ maps' = BuildRecords(impl, allFlights, Ctx)
            /\ pc' = NextUpsert(maps', 1)
            /\ ForgetPoll
            /\ UNCHANGED << comboIdx, allFlights, totalTripsScraped,
                            successfulCombinations, result, phase, fault, nInitial,
                            nPoll, nExtract >>

\* the upsert of the flights, trips, legs or deals map completes
UpsertResponse(ok) ==
    /\ pc \in {"flights", "trips", "legs", "deals"}
    /\ store' = IF ok THEN [store EXCEPT ![pc] = Upsert(@, maps[pc])] ELSE store
    /\ ended' = NoSummary
    /\ outcomes' = IF IsRange /\ ~ok THEN Append(outcomes, "not saved") ELSE outcomes
    /\ UNCHANGED << impl, pure, db, second, clearTables, req, combinations, calls, log >>
    /\ IF ~ok /\ IsRange
       THEN \* throw, caught by the loop body
            NextCombination(totalTripsScraped, successfulCombinations, phase, fault)
       ELSE /\ pc' = NextUpsert(maps, TableIdx(pc) + 1)
            /\ UNCHANGED << comboIdx, dataObject, cookies, finished, pollCount, allFlights,
                            maps, totalTripsScraped, successfulCombinations, result,
                            phase, fault, nInitial, nPoll, nExtract, sentCookies,
                            lastPoll, initialCookies, pages >>

FetchQueryRow ==
    [id |-> generateQueryId(Ctx.origin, Ctx.destination, Ctx.departureDate, Ctx.returnDate),
     origin |-> ToUpperCase(Ctx.origin), destination |-> ToUpperCase(Ctx.destination),
     departure_date |-> Ctx.departureDate, return_date |-> Ctx.returnDate,
     last_fetched |-> calls]

\* the upsert of the fetch_queries row completes
FetchQueryResponse(ok) ==
    LET trips == Cardinality(DOMAIN maps.trips)
    IN /\ pc = "fetch_queries"
       /\ store' = IF ok THEN [store EXCEPT !.fetch_queries =
                                  Upsert(@, MapPut(EmptyMap, FetchQueryRow.id, FetchQueryRow))]
                   ELSE store
       /\ ended' = NoSummary
       /\ outcomes' = IF IsRange THEN Append(outcomes, IF ok THEN "saved" ELSE "not saved")
                      ELSE outcomes
       /\ UNCHANGED << impl, pure, db, second, clearTables, req, combinations, calls, log >>
       /\ IF ~IsRange
          THEN /\ Return(Returned(200, TRUE, "Successfully scraped", trips, 0, <<>>),
                         phase, fault)
               /\ UNCHANGED << totalTripsScraped, successfulCombinations >>
          ELSE IF ~ok
          THEN NextCombination(totalTripsScraped, successfulCombinations, phase, fault)
          ELSE IF comboIdx < Len(combinations)
          THEN /\ totalTripsScraped' = totalTripsScraped + trips
               /\ successfulCombinations' = successfulCombinations + 1
               /\ pc' = "delay"
               /\ UNCHANGED << comboIdx, dataObject, cookies, finished, pollCount,
                               allFlights, maps, result, phase, fault, nInitial, nPoll,
                               nExtract, sentCookies, lastPoll, initialCookies, pages >>
          ELSE NextCombination(totalTripsScraped + trips, successfulCombinations + 1,
                               phase, fault)

\* The store client reports a failed upsert in the error field of what it
\* returns. Should the promise of an upsert reject instead, the exception is
\* caught by the loop body of FlightScraperRange, and by the catch of the
\* handler elsewhere.
HandlerCaughtRaised == [returned |-> TRUE, status |-> 0, success |-> FALSE, message |-> "", tripsScraped |-> 0, combinationsProcessed |-> 0, flights |-> <<>>]
HandlerCaught == Returned(500, FALSE, "error.message", 0, 0, <<>>)
UpsertRejected ==
    /\ pc \in {"flights", "trips", "legs", "deals", "fetch_queries"}
    /\ ended' = NoSummary
    /\ outcomes' = IF IsRange THEN Append(outcomes, "not saved") ELSE outcomes
    /\ UNCHANGED << impl, pure, db, second, clearTables, req, combinations, store, calls, log >>
    /\ IF IsRange
       THEN NextCombination(totalTripsScraped, successfulCombinations, phase, fault)
       ELSE /\ Return(HandlerCaught, phase, fault)
            /\ UNCHANGED << totalTripsScraped, successfulCombinations >>

\* the delay between two combinations is over
DelayDone ==
    /\ pc = "delay"
    /\ BeginSearch(comboIdx + 1)
    /\ ended' = NoSummary
    /\ UNCHANGED << impl, pure, db, second, clearTables, req, combinations, totalTripsScraped, successfulCombinations,
                    result, store, calls, log, outcomes >>

\* every response that the transport and the store can give
Next ==
    \/ \E rq \in RequestsOf(impl) : StartCall(rq)
    \/ \E r \in InitialResponses : InitialResponse(r)
    \/ \E r \in PollResponses : PollResponse(r)
    \/ WaitDone
    \/ AfterLoop
    \/ \E ok \in BOOLEAN : UpsertResponse(ok)
    \/ \E ok \in BOOLEAN : FetchQueryResponse(ok)
    \/ DelayDone

\* one invocation, under every response
Spec == InitLastCall /\ [][Next]_vars

\* the responses of a transport and a store that do not fail
GoodInitialResponses == { r \in InitialResponses : ~r.throws /\ ~NoToken(r.data)
                                                   /\ r.setCookie = <<>> }
\* the site answers a search with the itineraries of the route searched
GoodPayloads(rq) == IF rq.destination = AP_MUC THEN {"docA1", "%docA2"} ELSE {"docB"}
GoodPollResponses(rq) ==
    { r \in PollResponses : /\ ~r.throws /\ r.status = 200 /\ r.setCookie = <<>>
                            /\ r.parts \in { DataText("N", "") }
                                  \cup { DataText("Y", p) : p \in GoodPayloads(rq) } }

NextIngest ==
    \/ \E rq \in RequestsOf(impl) : StartCall(rq)
    \/ \E r \in GoodInitialResponses : InitialResponse(r)
    \/ \E r \in GoodPollResponses(req) : PollResponse(r)
    \/ WaitDone
    \/ AfterLoop
    \/ UpsertResponse(TRUE)
    \/ FetchQueryResponse(TRUE)
    \/ DelayDone

\* MaxCalls invocations one after the other, the store carried over
InitIngest == Init /\ impl # "fetchSkyscanner"
SpecIngest == InitIngest /\ [][NextIngest]_vars

\* scrapeRange over 3 departure dates and 2 return dates, every combination
\* answered at once with the round trip; the initial request and every
\* upsert may fail
RangeRequest3x2 == Request(AP_BER, AP_LHR, 11, 13, 14, 15)
RangeInitialResponses ==
    GoodInitialResponses \cup { r \in InitialResponses : r.throws }
\* the site completes each search at the first poll, with or without results
RangePollResponses ==
    { r \in PollResponses : /\ ~r.throws /\ r.status = 200 /\ r.setCookie = <<>>
                            /\ r.parts \in { DataText("Y", "docB"), DataText("Y", "%docEmpty") } }

NextRange ==
    \/ StartCall(RangeRequest3x2)
    \/ \E r \in RangeInitialResponses : InitialResponse(r)
    \/ \E r \in RangePollResponses : PollResponse(r)
    \/ AfterLoop
    \/ \E ok \in BOOLEAN : UpsertResponse(ok)
    \/ \E ok \in BOOLEAN : FetchQueryResponse(ok)
    \/ DelayDone

InitRange == InitLastCall /\ impl = "FlightScraperRange"
SpecRange == InitRange /\ [][NextRange]_vars

\* ------------------------------------------ an invocation left to run
\* every kind of failure of the transport, the parser and the store, a
\* rejected upsert included
LiveInitialResponses ==
    { r \in InitialResponses : r.setCookie = <<>> }
LivePollResponses ==
    { r \in PollResponses : /\ r.setCookie = <<>>
                            /\ \/ r.throws
                               \/ r.status = 504
                               \/ r.status = 200 /\ r.parts \in { DataText("N", ""), DataText("Y", "docB"),
                                                                   DataText("Y", "%bad") } }
NextLive ==
    \/ \E rq \in RequestsOf(impl) : StartCall(rq)
    \/ \E r \in LiveInitialResponses : InitialResponse(r)
    \/ \E r \in LivePollResponses : PollResponse(r)
    \/ WaitDone
    \/ AfterLoop
    \/ \E ok \in BOOLEAN : UpsertResponse(ok)
    \/ \E ok \in BOOLEAN : FetchQueryResponse(ok)
    \/ UpsertRejected
    \/ DelayDone
\* an invocation is running between the call and the return; every step of
\* NextLive but StartCall is a step of the running invocation, and one of
\* them is possible whenever it runs
Running == pc # "idle"
\* weak fairness of the steps of the running invocation: every request made
\* gets its response or fails, every delay runs out, and the code between two
\* awaits is executed
Fairness == []<>~Running \/ []<><<NextLive>>_vars
InitLive == InitLastCall /\ impl # "fetchSkyscanner"
SpecLive == InitLive /\ [][NextLive]_vars /\ Fairness

\* ------------------------------------ one search of a single date pair
\* scrape and fetchSkyscanner, left to run under every kind of response
NextSearch ==
    \/ \E rq \in RequestsOf(impl) : StartCall(rq)
    \/ \E r \in LiveInitialResponses : InitialResponse(r)
    \/ \E r \in LivePollResponses : PollResponse(r)
    \/ WaitDone
    \/ AfterLoop
    \/ \E ok \in BOOLEAN : UpsertResponse(ok)
    \/ \E ok \in BOOLEAN : FetchQueryResponse(ok)
    \/ UpsertRejected
\* every network call, upsert and wait of the running search returns
FairSearch == []<>~Running \/ []<><<NextSearch>>_vars
InitSearch == InitLastCall /\ impl \in {"FlightScraper", "fetchSkyscanner"}
SpecSearch == InitSearch /\ [][NextSearch]_vars /\ FairSearch

\* ------------------------------------------- the library, call after call
NextLib ==
    \/ \E rq \in RequestsOf(impl) : StartCall(rq)
    \/ \E r \in GoodInitialResponses : InitialResponse(r)
    \/ \E r \in GoodPollResponses(req) : PollResponse(r)
    \/ WaitDone
    \/ AfterLoop
InitLib == Init /\ impl = "fetchSkyscanner"
SpecLib == InitLib /\ [][NextLib]_vars

\* ------------------------------------------- two calls at the same time
\* The second call has extracted the itineraries of body for the request of
\* the first and has built its own maps; from here on it shares the store
\* with the first call.
SecondExtracted(body) ==
    LET m == BuildRecords(impl, extractFlights(body), Ctx)
    IN /\ second.pc = "none" /\ pc # "idle"
       /\ second' = [pc |-> NextUpsert(m, 1), maps |-> m]
       /\ UNCHANGED << pc, impl, req, combinations, comboIdx, dataObject, cookies, finished, pollCount, allFlights, maps, totalTripsScraped, successfulCombinations, result, store, calls, phase, fault, nInitial, nPoll, nExtract, sentCookies, lastPoll, initialCookies, pages, ended, log, outcomes, db, clearTables, pure >>
\* an upsert of the second call completes
SecondUpsert ==
    /\ second.pc \in {"flights", "trips", "legs", "deals"}
    /\ store' = [store EXCEPT ![second.pc] = Upsert(@, second.maps[second.pc])]
    /\ second' = [second EXCEPT !.pc = NextUpsert(second.maps, TableIdx(second.pc) + 1)]
    /\ UNCHANGED << pc, impl, req, combinations, comboIdx, dataObject, cookies, finished, pollCount, allFlights, maps, totalTripsScraped, successfulCombinations, result, calls, phase, fault, nInitial, nPoll, nExtract, sentCookies, lastPoll, initialCookies, pages, ended, log, outcomes, db, clearTables, pure >>
\* the fetch_queries upsert of the second call completes, and it returns
SecondFetchQuery ==
    /\ second.pc = "fetch_queries"
    /\ store' = [store EXCEPT !.fetch_queries = Upsert(@, MapPut(EmptyMap, FetchQueryRow.id, FetchQueryRow))]
    /\ second' = [second EXCEPT !.pc = "done"]
    /\ UNCHANGED << pc, impl, req, combinations, comboIdx, dataObject, cookies, finished, pollCount, allFlights, maps, totalTripsScraped, successfulCombinations, result, calls, phase, fault, nInitial, nPoll, nExtract, sentCookies, lastPoll, initialCookies, pages, ended, log, outcomes, db, clearTables, pure >>
\* the site shows both calls the same itinerary, at the same or another price
RacePollResponses ==
    { r \in PollResponses : /\ ~r.throws /\ r.status = 200 /\ r.setCookie = <<>>
                            /\ r.parts \in { DataText("Y", "docA1"), DataText("Y", "%docA2") } }
NextRace ==
    \/ StartCall(Request(AP_BER, AP_MUC, 11, 0, 0, 0))
    \/ \E r \in GoodInitialResponses : InitialResponse(r)
    \/ \E r \in RacePollResponses : PollResponse(r)
    \/ AfterLoop
    \/ UpsertResponse(TRUE)
    \/ FetchQueryResponse(TRUE)
    \/ \E body \in {"docA1", "docA2"} : SecondExtracted(body)
    \/ SecondUpsert
    \/ SecondFetchQuery
InitRace == InitLastCall /\ impl # "fetchSkyscanner"
SpecRace == InitRace /\ [][NextRace]_vars

\* ----------------------------------------------------------- ClearTables
\* the order of the comment: Deals -> Legs -> Trips -> Flights
ClearOrder == <<"deals", "legs", "trips", "flights">>
ClearFrame ==
    UNCHANGED << pc, impl, req, combinations, comboIdx, dataObject, cookies, finished,
                 pollCount, allFlights, maps, totalTripsScraped, successfulCombinations,
                 result, calls, phase, fault, nInitial, nPoll, nExtract, sentCookies,
                 lastPoll, initialCookies, pages, ended, log, outcomes, db, second, pure >>
\* a request to /api/flights/clear comes in: the four count requests are issued
ClearTablesCall ==
    /\ clearTables.pc = "idle" /\ pc = "idle"
    /\ clearTables' = [NoClear EXCEPT !.pc = "counting"]
    /\ UNCHANGED store /\ ClearFrame
\* the Promise.all of the counts resolves; the four deletes are created and
\* handed to Promise.all, which starts every one of them
ClearCounted ==
    /\ clearTables.pc = "counting"
    /\ clearTables' = [clearTables EXCEPT !.pc = "deleting",
                              !.counts = [t \in {"deals", "legs", "trips", "flights"} |->
                                            Cardinality(DOMAIN store[t])],
                              !.started = {"deals", "legs", "trips", "flights"}]
    /\ UNCHANGED store /\ ClearFrame
\* supabase.from(t).delete().neq('id', '') completes: every row is gone, or
\* the store reports an error and the table is as it was
ClearDeleteDone(t, ok) ==
    /\ clearTables.pc = "deleting"
    /\ t \in clearTables.started \ (clearTables.deleted \cup clearTables.failed)
    /\ store' = IF ok THEN [store EXCEPT ![t] = EmptyMap] ELSE store
    /\ clearTables' = IF ok THEN [clearTables EXCEPT !.deleted = @ \cup {t}]
                ELSE [clearTables EXCEPT !.failed = @ \cup {t}]
    /\ ClearFrame
\* the Promise.all of the deletes resolves, and the handler returns
ClearReturn ==
    /\ clearTables.pc = "deleting"
    /\ clearTables.started = clearTables.deleted \cup clearTables.failed
    /\ clearTables' = [clearTables EXCEPT !.pc = "idle", !.returned = TRUE,
                              !.status = IF clearTables.failed # {} THEN 500 ELSE 200,
                              !.success = clearTables.failed = {}]
    /\ UNCHANGED store /\ ClearFrame
\* one search is ingested, and the tables are cleared before or after it
NextClear ==
    \/ clearTables.pc = "idle" /\ StartCall(Request(AP_BER, AP_MUC, 11, 0, 0, 0))
    \/ \E r \in GoodInitialResponses : InitialResponse(r)
    \/ \E r \in RacePollResponses : PollResponse(r)
    \/ AfterLoop
    \/ UpsertResponse(TRUE)
    \/ FetchQueryResponse(TRUE)
    \/ ClearTablesCall
    \/ ClearCounted
    \/ \E t \in {"deals", "legs", "trips", "flights"}, ok \in BOOLEAN : ClearDeleteDone(t, ok)
    \/ ClearReturn
InitClear == InitLastCall /\ impl = "FlightScraper"
SpecClear == InitClear /\ [][NextClear]_vars

\* ------------------------------------------- InMemoryDB, call by call
\* flights, trips and deals handed to the add methods: two flights that
\* share an identifier (the identifier leaves the origin out), a third
\* flight, a trip of each, and deals of which two share trip and provider
DbFlight(flightNumber, origin) ==
    [id |-> generateFlightId(flightNumber, IsoDate(11), parseTimeTo24Hour(T_905)),
     flightNumber |-> flightNumber, origin |-> origin, destination |-> AP_MUC,
     date |-> IsoDate(11), time |-> parseTimeTo24Hour(T_905)]
DbTrip(flight) ==
    [id |-> generateTripId(<< flight.id >>, <<>>), outboundLegs |-> << flight.id >>,
     inboundLegs |-> <<>>]
DbDeal(trip, price, provider) ==
    [trip |-> trip.id, price |-> price, provider |-> provider, link |-> "", last_update |-> 0]
DbFlights == { DbFlight(FN_LH1, AP_BER), DbFlight(FN_LH1, AP_LHR), DbFlight(FN_LH2, AP_BER) }
DbTrips == { DbTrip(f) : f \in DbFlights }
DbDeals == { DbDeal(DbTrip(DbFlight(FN_LH1, AP_BER)), <<57, 48>>, FN_BA7),
             DbDeal(DbTrip(DbFlight(FN_LH1, AP_BER)), <<56, 53>>, FN_BA7) }
\* the listeners are sent at most MaxEvents events
MaxEvents == 6
DbCall(d) ==
    /\ Len(db.events) < MaxEvents
    /\ db' = d
    /\ UNCHANGED << pc, impl, req, combinations, comboIdx, dataObject, cookies, finished,
                    pollCount, allFlights, maps, totalTripsScraped, successfulCombinations,
                    result, store, calls, phase, fault, nInitial, nPoll, nExtract,
                    sentCookies, lastPoll, initialCookies, pages, ended, log, outcomes,
                    second, clearTables, pure >>
DbAddFlight(flight) == DbCall(addFlight(db, flight))
DbAddTrip(trip) == DbCall(addTrip(db, trip))
DbAddDeal(deal) == DbCall(addDeal(db, deal))
DbClear == DbCall(clear(db))
NextDb ==
    \/ \E flight \in DbFlights : DbAddFlight(flight)
    \/ \E trip \in DbTrips : DbAddTrip(trip)
    \/ \E deal \in DbDeals : DbAddDeal(deal)
    \/ DbClear
SpecDb == InitLib /\ [][NextDb]_vars

\* ------------------------------------- both routes on one deployment
\* the next request comes in on the route of coordinator i
Route(i) ==
    /\ pc = "idle" /\ calls < MaxCalls /\ i # impl
    /\ impl' = i
    /\ UNCHANGED << pc, req, combinations, comboIdx, dataObject, cookies, finished,
                    pollCount, allFlights, maps, totalTripsScraped, successfulCombinations,
                    result, store, calls, phase, fault, nInitial, nPoll, nExtract,
                    sentCookies, lastPoll, initialCookies, pages, ended, log, outcomes, db, second, clearTables, pure >>

S_ber == <<98, 101, 114>>
S_muc == <<109, 117, 99>>
\* the same search as typed in capitals and in small letters, and a range
QueryRequests(i) ==
    IF i = "FlightScraperRange"
    THEN { Request(S_ber, AP_MUC, 11, 0, 0, 0), Request(AP_BER, AP_MUC, 11, 12, 0, 0) }
    ELSE { Request(AP_BER, AP_MUC, 11, 0, 0, 0), Request(S_ber, S_muc, 11, 0, 0, 0) }
\* the site completes each search at the first poll
QueryPollResponses ==
    { r \in PollResponses : /\ ~r.throws /\ r.status = 200 /\ r.setCookie = <<>>
                            /\ r.parts = DataText("Y", "docA1") }

NextQueries ==
    \/ \E i \in {"FlightScraper", "FlightScraperRange"} : Route(i)
    \/ \E rq \in QueryRequests(impl) : StartCall(rq)
    \/ \E r \in GoodInitialResponses : InitialResponse(r)
    \/ \E r \in QueryPollResponses : PollResponse(r)
    \/ AfterLoop
    \/ UpsertResponse(TRUE)
    \/ \E ok \in BOOLEAN : FetchQueryResponse(ok)
    \/ DelayDone
InitQueries == Init /\ impl = "FlightScraper"
SpecQueries == InitQueries /\ [][NextQueries]_vars

\* ------------------------------------------ functions applied on their own
MaxDay == 5
\* UTC, Europe/Berlin at the start and at the end of summer time, and
\* America/New_York at the start of summer time, the change on day 3
TimeZones == { TimeZone(0, 0, 0), TimeZone(1, 2, 73), TimeZone(2, 1, 73), TimeZone(0 - 5, 0 - 4, 79) }
Applications(fn, argss) == { [fn |-> fn, args |-> a, applied |-> FALSE, value |-> <<>>] : a \in argss }
DateApplications ==
    Applications("generateDateCombinations",
                 [tz : TimeZones, departureDate : 1..(MaxDay - 1), departureDateEnd : 0..MaxDay,
                  returnDate : 0..MaxDay, returnDateEnd : 0..MaxDay])
Applied(fn, v) == /\ pure.fn = fn /\ ~pure.applied
                  /\ pure' = [pure EXCEPT !.applied = TRUE, !.value = v]
                  /\ UNCHANGED deployment
ApplyDateCombinations ==
    Applied("generateDateCombinations",
            generateDateCombinations(pure.args.tz, pure.args.departureDate, pure.args.departureDateEnd,
                                     pure.args.returnDate, pure.args.returnDateEnd))
\* lists of at most MaxLegs flight ids, split into outbound and inbound
MaxLegs == 3
SomeFlightIds ==
    { FlightIdOf(FN_LH1, AP_BER, IsoDate(11), T_1015), FlightIdOf(FN_LH2, AP_MUC, IsoDate(11), T_1130),
      FlightIdOf(FN_BA7, AP_LHR, IsoDate(12), T_1830) }
IdLists(n) == UNION { [1..k -> SomeFlightIds] : k \in 0..n }
TripIdArgs ==
    { [outbound |-> o, inbound |-> i] :
        o \in IdLists(MaxLegs), i \in IdLists(MaxLegs) }
TripIdApplications ==
    { a \in Applications("TripIdOf", TripIdArgs) \cup Applications("generateTripId", TripIdArgs) :
        Len(a.args.outbound) + Len(a.args.inbound) <= MaxLegs }
ApplyTripIdOf ==
    Applied("TripIdOf", TripIdOf(pure.args.outbound, pure.args.inbound))
ApplyGenerateTripId ==
    Applied("generateTripId", generateTripId(pure.args.outbound, pure.args.inbound))
\* flights by flight number, origin, departure date and departure time
FlightTuples ==
    [flightNumber : {FN_LH1, FN_LH2}, origin : {AP_BER, AP_MUC},
     date : {IsoDate(11), IsoDate(12)}, time : {T_1015, T_1130}]
\* the id that each copy gives to the flight of a tuple
RangeFlightId(t) == FlightIdOf(OrElse(t.flightNumber, S_UNKNOWN), t.origin, t.date, t.time)
ScraperFlightId(t) == FlightIdOf(Interpolate(t.flightNumber), Interpolate(t.origin), t.date, t.time)
InMemoryFlightId(t) == generateFlightId(t.flightNumber, t.date, t.time)
FlightIdApplications ==
    Applications("RangeFlightId", FlightTuples) \cup Applications("ScraperFlightId", FlightTuples)
    \cup Applications("generateFlightId", FlightTuples)
ApplyRangeFlightId == Applied("RangeFlightId", RangeFlightId(pure.args))
ApplyScraperFlightId == Applied("ScraperFlightId", ScraperFlightId(pure.args))
ApplyGenerateFlightId == Applied("generateFlightId", InMemoryFlightId(pure.args))
\* a round trip whose return section has one leg panel, without arrival time
BlockReturnNoArrival ==
    [outbound |-> SectionPanel(DateLabel(11), T_905, T_230PM, AP_BER, AP_LHR, AL_LH,
                     << LegPanel(FN_LH1, AL_LH, T_905, T_1015, AP_BER, AP_MUC),
                        LegPanel(FN_LH2, AL_LH, T_1130, T_230PM, AP_MUC, AP_LHR) >>),
     ret |-> SectionPanel(DateLabel(12), T_1830, NullStr, AP_LHR, AP_BER, AL_BA,
                     << LegPanel(FN_BA7, AL_BA, T_1830, NullStr, AP_LHR, AP_BER) >>),
     priceRows |-> << PriceRow(PV_Y, 300, "y1"), PriceRow(PV_X, 250, "x1") >>, throws |-> FALSE]
\* a block whose outbound panel shows no leg panel and no arrival time
BlockOutboundNoArrival ==
    [outbound |-> SectionPanel(DateLabel(11), T_905, NullStr, AP_BER, AP_MUC, AL_LH, <<>>),
     ret |-> NoHeading,
     priceRows |-> << PriceRow(PV_X, 100, "a1") >>, throws |-> FALSE]
\* a round trip whose return heading shows no date that the pattern reads
BlockReturnNoDate == [BlockB EXCEPT !.ret.date = NullDate]
\* the record maps that a handler builds from the document of one block
RecordContexts ==
    { [origin |-> AP_BER, destination |-> AP_LHR, departureDate |-> IsoDate(11),
       returnDate |-> IsoDate(r)] : r \in {0, 12} }
RecordArgs ==
    [impl : Impls \ {"fetchSkyscanner"},
     block : {BlockA(100, "a1"), BlockB, BlockNoPrice, BlockReturnNoArrival,
              BlockOutboundNoArrival, BlockReturnNoDate},
     ctx : RecordContexts]
ApplyBuildRecords ==
    Applied("BuildRecords",
            BuildRecords(pure.args.impl, ExtractBlocks(<<pure.args.block>>), pure.args.ctx))
\* documents of at most MaxBlocks blocks
MaxBlocks == 3
SomeBlocks == {BlockA(100, "a1"), BlockB, BlockNoPrice, BlockThrows}
Documents == UNION { [1..k -> SomeBlocks] : k \in 0..MaxBlocks }
ApplyExtractFlights == Applied("extractFlights", ExtractBlocks(pure.args))
\* price texts of provider rows, as character codes
Comma == 44
Period == 46
PT_250 == << 50, 53, 48 >>
PT_99_50 == << 57, 57, 46, 53, 48 >>
PT_1c234 == << 49, 44, 50, 51, 52 >>
PT_Eur1c234_50 == << 69, 85, 82, 32, 49, 44, 50, 51, 52, 46, 53, 48 >>
PT_From980 == << 102, 114, 111, 109, 32, 57, 56, 48 >>
PT_NA == << 110, 47, 97 >>
PriceTexts == { PT_250, PT_99_50, PT_1c234, PT_Eur1c234_50, PT_From980, PT_NA }
\* the position of the first digit of s from i on, 0 when there is none
RECURSIVE FirstDigit(_, _)
FirstDigit(s, i) ==
    IF i > Len(s) THEN 0 ELSE IF DigitAt(s, i) THEN i ELSE FirstDigit(s, i + 1)
\* (?:[.,]\d{3})* from position j: the position after the last group
RECURSIVE ThousandsGroups(_, _)
ThousandsGroups(s, j) ==
    IF At(s, j) \in {Period, Comma} /\ DigitAt(s, j + 1) /\ DigitAt(s, j + 2) /\ DigitAt(s, j + 3)
    THEN ThousandsGroups(s, j + 4) ELSE j
\* priceText.match(/(\d{1,3}(?:[.,]\d{3})*(?:[.,]\d{2})?)/): the matched
\* text, empty when there is no match
priceMatch(priceText) ==
    LET i == FirstDigit(priceText, 1)
        d == IF DigitAt(priceText, i + 1) THEN (IF DigitAt(priceText, i + 2) THEN i + 3 ELSE i + 2)
             ELSE i + 1
        g == ThousandsGroups(priceText, d)
        e == IF At(priceText, g) \in {Period, Comma} /\ DigitAt(priceText, g + 1)
                                                     /\ DigitAt(priceText, g + 2)
             THEN g + 3 ELSE g
    IN IF i = 0 THEN <<>> ELSE SubSeq(priceText, i, e - 1)
\* the number of digits of s from position i on
RECURSIVE DigitRun(_, _)
DigitRun(s, i) == IF DigitAt(s, i) THEN 1 + DigitRun(s, i + 1) ELSE 0
RECURSIVE DecimalValue(_)
DecimalValue(digits) ==
    IF digits = <<>> THEN 0
    ELSE 10 * DecimalValue(SubSeq(digits, 1, Len(digits) - 1)) + DigitVal(digits[Len(digits)])
\* the fixed point in which parsed prices are compared: the number of
\* decimals kept, more than any price text of the model has
Decimals == 3
Scale == 10 ^ Decimals
\* parseFloat(price.replace(/,/g, '')) in units of 1 / Scale: the integer part, and
\* the decimals after the first period
numValue(price) ==
    LET t == SelectSeq(price, LAMBDA c : c # Comma)
        n == DigitRun(t, 1)
        m == IF At(t, n + 1) = Period THEN DigitRun(t, n + 2) ELSE 0
        frac == SubSeq(t, n + 2, n + 1 + (IF m > Decimals THEN Decimals ELSE m))
        padded == frac \o [k \in 1..(Decimals - Len(frac)) |-> Digit(0)]
    IN DecimalValue(SubSeq(t, 1, n)) * Scale + DecimalValue(padded)
\* Array.prototype.sort with (a, b) => a.numValue - b.numValue: stable
RECURSIVE InsertByValue(_, _)
InsertByValueFirst(sorted, p) == << p >> \o sorted
InsertByValue(sorted, p) ==
    IF sorted = <<>> THEN << p >>
    ELSE IF numValue(p) < numValue(Head(sorted)) THEN << p >> \o sorted
    ELSE << Head(sorted) >> \o InsertByValue(Tail(sorted), p)
RECURSIVE SortByValue(_)
SortByValue(ps) ==
    IF ps = <<>> THEN <<>>
    ELSE InsertByValue(SortByValue(SubSeq(ps, 1, Len(ps) - 1)), ps[Len(ps)])
\* the price part of extractFlightFromSearchModal on a block with an
\* outbound section whose provider rows show the given texts
HeadlinePrice(priceTexts) ==
    LET matches == [i \in 1..Len(priceTexts) |-> priceMatch(priceTexts[i])]
        prices == SelectSeq(matches, LAMBDA m : m # <<>>)
        priceValues == SortByValue(prices)
    IN IF priceValues = <<>> THEN [found |-> FALSE, price |-> <<>>, prices |-> <<>>]
       ELSE [found |-> TRUE, price |-> priceValues[1], prices |-> prices]
\* blocks of at most MaxRows provider rows
MaxRows == 3
RowTexts == UNION { [1..k -> PriceTexts] : k \in 0..MaxRows }
ApplyHeadlinePrice == Applied("HeadlinePrice", HeadlinePrice(pure.args))
\* the 12-hour clock texts: "9:05 AM", "09:05 am", "12:00 PM", ...
ClockTimes == [hour : 1..12, minute : 0..59, pm : BOOLEAN, padded : BOOLEAN, lower : BOOLEAN]
HourText(t) == IF t.padded \/ t.hour > 9 THEN Pad2(t.hour) ELSE << Digit(t.hour) >>
PeriodText(t) ==
    IF t.lower THEN (IF t.pm THEN <<112, 109>> ELSE <<97, 109>>)
    ELSE (IF t.pm THEN <<80, 77>> ELSE <<65, 77>>)
ClockText(t) == HourText(t) \o <<Colon>> \o Pad2(t.minute) \o <<Space>> \o PeriodText(t)
ApplyParseTime == Applied("parseTimeTo24Hour", parseTimeTo24Hour(ClockText(pure.args)))
\* time texts of every kind: 24-hour with and without seconds, 12-hour,
\* padded with spaces, and texts that are no time
TT_905 == << 57, 58, 48, 53 >>
TT_0905_30 == << 48, 57, 58, 48, 53, 58, 51, 48 >>
TT_905PM == << 57, 58, 48, 53, 32, 80, 77 >>
TT_Spaced == << 32, 49, 52, 58, 51, 48, 32 >>
TT_Noon == << 110, 111, 111, 110 >>
TT_7_5 == << 55, 58, 53 >>
TT_Blank == << 32 >>
TimeTexts == { <<>>, TT_905, TT_0905_30, TT_905PM, TT_Spaced, TT_Noon, TT_7_5, TT_Blank }
ApplyParseTimeText == Applied("parseTimeTo24Hour of a text", parseTimeTo24Hour(pure.args))
\* parseDurationToMinutes. The unit letters, in either case (the patterns
\* carry the i flag)
LetterH == {104, 72}
LetterM == {109, 77}
\* cleaned.match(/(\d+)x/i) for the unit letter x, searched from index i:
\* the start and the length of the digits of the first match, or <<>>
RECURSIVE UnitMatch(_, _, _)
UnitMatch(s, letters, i) ==
    IF i > Len(s) THEN <<>>
    ELSE IF DigitAt(s, i) /\ At(s, i + DigitRun(s, i)) \in letters
         THEN << i, DigitRun(s, i) >>
         ELSE UnitMatch(s, letters, i + 1)
\* parseInt(match[1], 10)
MatchedInt(s, m) == DecimalValue(SubSeq(s, m[1], m[1] + m[2] - 1))
\* the text after the hours never offers minutes
MinutesOnlyNever(afterHours) == <<>>
\* afterHours.match(/^(\d{1,2})(?:\s|$|m)/i): one or two digits at the
\* start, followed by a space, the end of the text or the letter m
MinutesOnlyMatch(afterHours) ==
    LET n == IF DigitAt(afterHours, 2) THEN 2 ELSE 1
    IN IF /\ DigitAt(afterHours, 1)
          /\ \/ Len(afterHours) = n
             \/ IsSpace(At(afterHours, n + 1))
             \/ At(afterHours, n + 1) \in LetterM
       THEN << 1, n >>
       ELSE <<>>
\* cleaned.match(/(\d{1,2}):(\d{2})/) searched from index i: the hours and
\* the minutes of the first match, or <<>>
RECURSIVE TimeMatch(_, _)
TimeMatch(s, i) ==
    IF i > Len(s) THEN <<>>
    ELSE IF /\ DigitAt(s, i) /\ DigitAt(s, i + 1) /\ At(s, i + 2) = Colon
            /\ DigitAt(s, i + 3) /\ DigitAt(s, i + 4)
         THEN << DecimalValue(SubSeq(s, i, i + 1)), DecimalValue(SubSeq(s, i + 3, i + 4)) >>
         ELSE IF /\ DigitAt(s, i) /\ At(s, i + 1) = Colon
                 /\ DigitAt(s, i + 2) /\ DigitAt(s, i + 3)
              THEN << DecimalValue(SubSeq(s, i, i)), DecimalValue(SubSeq(s, i + 2, i + 3)) >>
              ELSE TimeMatch(s, i + 1)
\* the three returns of parseDurationToMinutes on the trimmed text
DurationOfCleaned(cleaned) ==
    LET hoursMatch == UnitMatch(cleaned, LetterH, 1)
        minutesMatch == UnitMatch(cleaned, LetterM, 1)
        afterHours == Trim(SubSeq(cleaned, hoursMatch[1] + hoursMatch[2] + 1, Len(cleaned)))
        minutesOnlyMatch == MinutesOnlyMatch(afterHours)
        timeMatch == TimeMatch(cleaned, 1)
        hours == IF hoursMatch # <<>> THEN MatchedInt(cleaned, hoursMatch) ELSE 0
        minutes == IF minutesMatch # <<>> THEN MatchedInt(cleaned, minutesMatch) ELSE 0
    IN IF /\ hoursMatch # <<>> /\ minutesMatch = <<>> /\ minutesOnlyMatch # <<>>
          /\ MatchedInt(afterHours, minutesOnlyMatch) < 60
       THEN hours * 60 + MatchedInt(afterHours, minutesOnlyMatch)
       ELSE IF hoursMatch = <<>> /\ minutesMatch = <<>> /\ timeMatch # <<>>
            THEN timeMatch[1] * 60 + timeMatch[2]
            ELSE hours * 60 + minutes
parseDurationToMinutes(durationStr) ==
    IF durationStr = <<>> THEN 0 ELSE DurationOfCleaned(Trim(durationStr))
\* duration texts by their form: "1h 50m", "1h50m", "1h50", "2h", "45m",
\* "1:50", the same with a seconds part, the empty text and texts that are
\* no duration
DurationForms == { "Hh Mm", "HhMm", "HhM", "Hh M", "Hh", "Mm", "H:MM",
                   "Hh Mm Ss", "Mm Ss", "Hh Ss", "H:MM:SS", "empty", "none", "seconds" }
DurationHours == {0, 1, 2, 11, 25}
DurationMinutes == {0, 5, 30, 50, 59}
Durations == [form : DurationForms, h : DurationHours, m : DurationMinutes,
              upper : BOOLEAN, spaced : BOOLEAN]
\* String(n) of a number below 100
NumText(n) == IF n > 9 THEN Pad2(n) ELSE << Digit(n) >>
DurationText(d) ==
    LET H == NumText(d.h) \o (IF d.upper THEN <<72>> ELSE <<104>>)
        M == NumText(d.m) \o (IF d.upper THEN <<77>> ELSE <<109>>)
        S == << 52, 53, 115 >>
        text ==
          CASE d.form = "Hh Mm" -> H \o <<Space>> \o M
            [] d.form = "HhMm" -> H \o M
            [] d.form = "HhM" -> H \o NumText(d.m)
            [] d.form = "Hh M" -> H \o <<Space>> \o NumText(d.m)
            [] d.form = "Hh" -> H
            [] d.form = "Mm" -> M
            [] d.form = "H:MM" -> NumText(d.h) \o <<Colon>> \o Pad2(d.m)
            [] d.form = "Hh Mm Ss" -> H \o <<Space>> \o M \o <<Space>> \o S
            [] d.form = "Mm Ss" -> M \o <<Space>> \o S
            [] d.form = "Hh Ss" -> H \o <<Space>> \o S
            [] d.form = "H:MM:SS" -> NumText(d.h) \o <<Colon>> \o Pad2(d.m) \o <<Colon, 52, 53>>
            [] d.form = "empty" -> <<>>
            [] d.form = "none" -> << 110, 47, 97 >>
            [] d.form = "seconds" -> S
    IN IF d.spaced /\ text # <<>> THEN <<Space>> \o text \o <<Space>> ELSE text
ApplyParseDuration ==
    Applied("parseDurationToMinutes", parseDurationToMinutes(DurationText(pure.args)))
NextPure ==
    \/ ApplyDateCombinations
    \/ ApplyTripIdOf
    \/ ApplyGenerateTripId
    \/ ApplyRangeFlightId
    \/ ApplyScraperFlightId
    \/ ApplyGenerateFlightId
    \/ ApplyBuildRecords
    \/ ApplyExtractFlights
    \/ ApplyHeadlinePrice
    \/ ApplyParseTime
    \/ ApplyParseTimeText
    \/ ApplyParseDuration
InitPure ==
    /\ Constructed(0) /\ impl = "FlightScraperRange"
    /\ pure \in DateApplications \cup TripIdApplications \cup FlightIdApplications
                \cup Applications("BuildRecords", RecordArgs)
                \cup Applications("extractFlights", Documents)
                \cup Applications("HeadlinePrice", RowTexts)
                \cup Applications("parseTimeTo24Hour", ClockTimes)
                \cup Applications("parseTimeTo24Hour of a text", TimeTexts)
                \cup Applications("parseDurationToMinutes", Durations)
SpecPure == InitPure /\ [][NextPure]_vars

\* ------------------------------------------------------------ properties
\* C1: a search issues at most 20 poll requests; when the 20th response is
\* not terminal either, the loop is left with finished false, the search is
\* not FINISHED and its itinerary list is empty.
C1_PollLimit ==
    /\ nPoll <= maxPolls
    /\ ended.nPoll <= maxPolls
    /\ (pc = "after" /\ nPoll = maxPolls /\ ~IsTerminalResponse(lastPoll.response))
          => (~finished /\ phase # "FINISHED" /\ allFlights = <<>>)
    /\ (ended.nPoll = maxPolls /\ ended.phase # "FINISHED") => ended.flights = <<>>
    /\ (IsLib /\ result.returned /\ phase # "FINISHED") => result.flights = <<>>

C1_Witness ==
    /\ pc = "after" /\ nPoll = maxPolls /\ lastPoll.received
    /\ phase = "POLLING" /\ ~finished

\* C2: a 504 page or a not-found page leaves the search polling, with
\* nothing extracted and the loop going on (up to the poll limit); a
\* terminal response, after any number of such polls, ends the loop with
\* finished true and exactly the itineraries extracted from its payload.
C2_ErrorPagesNonTerminal ==
    /\ (lastPoll.received /\ IsErrorPage(lastPoll.response))
          => /\ ~finished /\ phase = "POLLING" /\ fault = "none" /\ allFlights = <<>>
             /\ pc = "wait" \/ (pc = "after" /\ nPoll = maxPolls)
    /\ (lastPoll.received /\ IsTerminalResponse(lastPoll.response))
          => /\ pc = "after" /\ finished /\ phase = "FINISHED"
             /\ allFlights = extractFlights(PayloadBody(lastPoll.response.parts))

C2_Witness ==
    /\ pc = "after" /\ finished /\ phase = "FINISHED"
    /\ pages = {"504", "404"} /\ nPoll >= 4 /\ nPoll < maxPolls
    /\ allFlights # <<>>

\* C3: a search calls the extractor at most once; pollRequest calls it
\* exactly for a response whose completion flag is Y; as long as no such
\* response came, the itinerary list of the search is empty.
C3_ExtractOnce ==
    /\ nExtract <= 1
    /\ lastPoll.received
          => (lastPoll.result.extracted <=> IsTerminalResponse(lastPoll.response))
    /\ (lastPoll.received /\ ~IsTerminalResponse(lastPoll.response))
          => lastPoll.result.flights = <<>>
    /\ nExtract = 1 <=> phase = "FINISHED"
    /\ phase # "FINISHED" => allFlights = <<>>

C3_Witness ==
    /\ pc = "after" /\ phase = "FINISHED" /\ nExtract = 1 /\ nPoll > 1
    /\ allFlights # <<>>

C5_PhaseOrder ==
    [][/\ pc' = "init" => (phase' = "INITIATED" /\ nInitial' = 1 /\ nPoll' = 0)
       /\ pc' # "init"
             => /\ \/ phase' = phase
                   \/ <<phase, phase'>> \in { <<"INITIATED", "POLLING">>,
                                              <<"INITIATED", "ABORTED">>,
                                              <<"POLLING", "FINISHED">>,
                                              <<"POLLING", "ABORTED">> }
                /\ nInitial' = nInitial
                /\ phase \in {"FINISHED", "ABORTED"} => nPoll' = nPoll
       /\ nPoll' > nPoll
             => /\ phase \in {"INITIATED", "POLLING"} /\ phase' = "POLLING"
                /\ phase = "INITIATED" => (pc = "init" /\ nPoll = 0)
                /\ ~dataObject'.isNull /\ dataObject'.token # ""]_vars

C5_Witness == pc = "fetch_queries" /\ phase = "FINISHED" /\ nPoll >= 2

\* C6: a search whose initial response carries no job token is over at
\* once: no poll request, one initial request, and the entry point returns
\* or goes on to the next combination.
C6_NoTokenNoPoll ==
    /\ [](fault = "no token"
             => (nPoll = 0 /\ nInitial = 1 /\ phase = "ABORTED" /\ pc = "idle"))
    /\ [][ended'.fault = "no token"
             => /\ pc = "init"
                /\ ended'.nPoll = 0 /\ ended'.nInitial = 1 /\ ended'.phase = "ABORTED"
                /\ \/ pc' = "idle" /\ result'.returned
                   \/ pc' = "init" /\ comboIdx' = comboIdx + 1]_vars

C6_Witness ==
    /\ ended.fault = "no token" /\ ended.nPoll = 0
    /\ pc = "init" /\ comboIdx = 2

\* C7: the cookies carried by the next poll request are the cookies carried
\* by the last one overridden by the cookies that the last response issued:
\* an issued cookie has its new value, every other cookie keeps its value,
\* and there is no other cookie.
C7_CookiesMerged ==
    [][(pc = "wait" /\ pc' = "poll")
          => LET old == sentCookies
                 new == lastPoll.response.setCookie
                 next == sentCookies'
             IN /\ CookieNamesOf(next) = CookieNamesOf(old) \cup CookieNamesOf(new)
                /\ \A n \in CookieNamesOf(new) : CookieValue(next, n) = CookieValue(new, n)
                /\ \A n \in CookieNamesOf(old) \ CookieNamesOf(new) :
                      CookieValue(next, n) = CookieValue(old, n)]_vars

\* C8: a poll request is issued only when the response to the one before
\* has been received, and carries the cookies that pollRequest returned
\* for that response; the first poll request carries the cookies of the
\* initial response.
C8_PollOrder ==
    [][nPoll' > nPoll
          => /\ nPoll' = nPoll + 1
             /\ nPoll = 0 => (pc = "init" /\ sentCookies' = initialCookies')
             /\ nPoll >= 1 => /\ pc = "wait" /\ lastPoll.received
                              /\ sentCookies' = lastPoll.result.cookies]_vars

C8_Witness ==
    /\ pc = "poll" /\ nPoll >= 3
    /\ sentCookies # initialCookies /\ initialCookies # NoCookies

C10_IdempotentIngest ==
    LET Strip(e) == [ctx |-> e.ctx,
                     itineraries |->
                         [k \in 1..Len(e.flights) |->
                             [outbound |-> e.flights[k].outbound, ret |-> e.flights[k].ret,
                              providers |-> [m \in 1..Len(e.flights[k].prices) |->
                                                e.flights[k].prices[m].provider]]]]
        last == log[Len(log)]
        fd == last.flights[1]
        segments == Len(fd.outbound.legs) + Len(fd.ret.legs)
    IN (/\ Len(log) >= 2
        /\ \A i \in 1..Len(log) : Strip(log[i]) = Strip(last)
        /\ Len(last.flights) = 1
        /\ pc \notin {"flights", "trips", "legs", "deals"})
          => /\ Cardinality(DOMAIN store.flights) = segments
             /\ Cardinality(DOMAIN store.trips) = 1
             /\ Cardinality(DOMAIN store.legs) = segments
             /\ Cardinality(DOMAIN store.deals) = Len(fd.prices)
             /\ \A m \in 1..Len(fd.prices) :
                   \E id \in DOMAIN store.deals :
                      /\ store.deals[id].provider = fd.prices[m].provider
                      /\ store.deals[id].price = fd.prices[m].price
                      /\ store.deals[id].link = fd.prices[m].link

C10_Witness ==
    /\ pc = "idle" /\ calls = 2 /\ Len(log) = 2
    /\ log[1].ctx = log[2].ctx
    /\ Len(log[1].flights) = 1 /\ Len(log[2].flights) = 1
    /\ log[1].flights[1].outbound = log[2].flights[1].outbound
    /\ log[1].flights[1].prices # log[2].flights[1].prices
    /\ Cardinality(DOMAIN store.deals) = 1
    /\ \E id \in DOMAIN store.deals :
          store.deals[id].price = log[2].flights[1].prices[1].price

\* the rows of these records are in the store
RecordsInStore(recs) ==
    \A j \in 1..Len(Tables) : DOMAIN recs[Tables[j]] \subseteq DOMAIN store[Tables[j]]

\* the rows of combination i, saved, are in the store
CombinationInStore(i) ==
    /\ generateQueryId(CtxAt(i).origin, CtxAt(i).destination, CtxAt(i).departureDate,
                       CtxAt(i).returnDate) \in DOMAIN store.fetch_queries
    /\ \E k \in 1..Len(log) :
          /\ log[k].ctx = CtxAt(i)
          /\ RecordsInStore(BuildRecords(impl, log[k].flights, log[k].ctx))

\* C11: in scrapeRange a combination that fails (its initial request, or an
\* upsert) ends alone: the next step begins the next combination, no row
\* ever leaves the store, the rows of every combination saved so far are in
\* the store, and the handler returns only when every combination has had
\* its outcome.
C11_FailureEndsOneCombination ==
    /\ [](IsRange =>
            /\ \A i \in 1..Len(outcomes) : outcomes[i] = "saved" => CombinationInStore(i)
            /\ result.returned => Len(outcomes) = Len(combinations))
    /\ [][IsRange =>
            /\ \A j \in 1..Len(Tables) :
                  DOMAIN store[Tables[j]] \subseteq DOMAIN store'[Tables[j]]
            /\ DOMAIN store.fetch_queries \subseteq DOMAIN store'.fetch_queries
            /\ (/\ Len(outcomes') = Len(outcomes) + 1
                /\ outcomes'[Len(outcomes')] # "saved"
                /\ Len(outcomes') < Len(combinations))
                  => /\ pc' = "init" /\ comboIdx' = comboIdx + 1
                     /\ nInitial' = 1 /\ ~result'.returned]_vars

C11_Witness ==
    /\ IsRange /\ result.returned /\ Len(combinations) = 6
    /\ outcomes = <<"saved", "saved", "saved", "not saved", "saved", "saved">>
    /\ Cardinality(DOMAIN store.fetch_queries) = 5
    /\ result.combinationsProcessed = 5

\* C12: scrapeRange takes its combinations one at a time in generation
\* order: the initial request of combination k+1 is issued only when
\* combination k has had its outcome (its upserts have completed or one has
\* failed), and at every point of combination k+1 every earlier combination
\* has its outcome and, if it was saved, its rows in the store.
C12_OneCombinationAtATime ==
    /\ [](IsRange /\ comboIdx >= 1 =>
            /\ Len(outcomes) \in {comboIdx - 1, comboIdx}
            /\ Len(outcomes) = comboIdx => pc \in {"init", "delay", "idle"}
            /\ \A i \in 1..(comboIdx - 1) :
                  i <= Len(outcomes) /\ (outcomes[i] = "saved" => CombinationInStore(i)))
    /\ [][(IsRange /\ pc' = "init") =>
            /\ comboIdx' = IF pc = "idle" THEN 1 ELSE comboIdx + 1
            /\ Len(outcomes') = comboIdx' - 1
            /\ pc \notin {"poll", "wait"}
            /\ store' = store \/ (pc = "fetch_queries" /\ outcomes'[comboIdx] = "saved")]_vars

C12_Witness ==
    /\ IsRange /\ pc = "poll" /\ comboIdx = 5
    /\ outcomes = <<"saved", "not saved", "no search", "saved">>
    /\ CombinationInStore(1) /\ CombinationInStore(4)
    /\ Cardinality(DOMAIN store.fetch_queries) = 2

\* every day from start to end inclusive, or the single day
EveryDay(start, end) ==
    IF end = 0 THEN <<start>> ELSE [i \in 1..(end - start + 1) |-> start + i - 1]
CartesianProduct(D, R, oneWay) ==
    IF oneWay THEN [k \in 1..Len(D) |-> [departureDate |-> D[k], returnDate |-> 0]]
    ELSE [k \in 1..(Len(D) * Len(R)) |->
             [departureDate |-> D[((k - 1) \div Len(R)) + 1],
              returnDate |-> R[((k - 1) % Len(R)) + 1]]]
\* C13: generateDateCombinations returns the cartesian product of every day of
\* the departure range and every day of the return range, departure major and
\* without duplicates, and one combination per departure date when the
\* request has no return date
C13_CartesianProduct ==
    (pure.fn = "generateDateCombinations" /\ pure.applied) =>
        pure.value = CartesianProduct(EveryDay(pure.args.departureDate, pure.args.departureDateEnd),
                                      EveryDay(pure.args.returnDate, pure.args.returnDateEnd),
                                      pure.args.returnDate = 0)

\* the combinations of this invocation by the way they ended
Saved == { i \in 1..Len(outcomes) : outcomes[i] = "saved" }
Failed == { i \in 1..Len(outcomes) : outcomes[i] \in {"not saved", "no search"} }
\* the numbers that the response and the closing log line of scrapeRange carry
ReportedNumbers == { result.tripsScraped, result.combinationsProcessed, Len(combinations) }
\* C14 as stated: on return scrapeRange reports the number of successful
\* combinations and the number of failed ones, the successful count is the
\* number of combinations whose records were all upserted, and the two
\* counts sum to the number of generated combinations
C14_ReportsBothCounts ==
    (IsRange /\ result.returned) =>
        /\ result.combinationsProcessed = Cardinality(Saved)
        /\ Cardinality(Failed) \in ReportedNumbers
        /\ Cardinality(Saved) + Cardinality(Failed) = Len(combinations)
\* C14: on return from the combination loop scrapeRange reports the number of
\* successful combinations, which is the number of combinations whose records
\* were all upserted; every generated combination has ended, so the
\* combinations that failed or found no flight are the remaining ones
C14_ReportsSuccessful ==
    (IsRange /\ result.returned) =>
        /\ result.status = 200
        /\ result.combinationsProcessed = Cardinality(Saved)
        /\ Len(outcomes) = Len(combinations)
        /\ \A i \in 1..Len(outcomes) : i \in Saved <=> CombinationInStore(i)
C14_Witness ==
    /\ IsRange /\ result.returned /\ Len(combinations) = 6
    /\ outcomes = <<"saved", "no flights", "not saved", "saved", "no search", "saved">>
    /\ result.combinationsProcessed = 3

\* the elements of a finite set, in some order
RECURSIVE SeqOfSet(_)
SeqOfSet(S) ==
    IF S = {} THEN <<>>
    ELSE LET x == CHOOSE y \in S : TRUE IN <<x>> \o SeqOfSet(S \ {x})
\* the flights of the Leg rows persisted for trip t, outbound and inbound
PersistedFlightsOf(t) ==
    { store.legs[l].flight : l \in { k \in DOMAIN store.legs : store.legs[k].trip = t } }
\* the legs of the running ingestion have been upserted
LegsPersisted == maps.legs # EmptyMap /\ DOMAIN maps.legs \subseteq DOMAIN store.legs
\* C15: the id of a persisted trip is the hash of the sorted, '|'-joined ids
\* of the flights of all Leg rows, outbound and inbound, persisted for it
C15_TripIdOfItsLegs ==
    LegsPersisted =>
        \A t \in DOMAIN store.trips : t = TripIdOf(SeqOfSet(PersistedFlightsOf(t)), <<>>)

\* the number of times x occurs in the list
Occurrences(l, x) == Cardinality({ k \in 1..Len(l) : l[k] = x })
\* b lists the same flight ids as a, in any order and however split
SameFlights(a, b) ==
    \A x \in SomeFlightIds :
        Occurrences(a.outbound \o a.inbound, x) = Occurrences(b.outbound \o b.inbound, x)
Rearrangements(a) ==
    { b \in TripIdArgs : Len(b.outbound) + Len(b.inbound) <= MaxLegs /\ SameFlights(a, b) }
\* C16: the trip id is the same for every permutation of the list of flight
\* ids, flights swapped between the outbound and the inbound list included
C16_TripIdOrderFree ==
    /\ (pure.fn = "TripIdOf" /\ pure.applied) =>
          \A b \in Rearrangements(pure.args) : TripIdOf(b.outbound, b.inbound) = pure.value
    /\ (pure.fn = "generateTripId" /\ pure.applied) =>
          \A b \in Rearrangements(pure.args) : generateTripId(b.outbound, b.inbound) = pure.value
C16_Witness ==
    /\ pure.fn = "TripIdOf" /\ pure.applied
    /\ Len(pure.args.outbound) = 2 /\ Len(pure.args.inbound) = 1
    /\ pure.args.outbound[1] # pure.args.outbound[2]
    /\ pure.args.inbound[1] \notin { pure.args.outbound[1], pure.args.outbound[2] }
    /\ Cardinality(Rearrangements(pure.args)) > 6

\* the tuples that differ from t in exactly one of the four fields
OneFieldApart(t) ==
    { u \in FlightTuples :
        Cardinality({ f \in {"flightNumber", "origin", "date", "time"} : u[f] # t[f] }) = 1 }
FlightIdFunction(fn, t) ==
    CASE fn = "RangeFlightId" -> RangeFlightId(t)
      [] fn = "ScraperFlightId" -> ScraperFlightId(t)
      [] fn = "generateFlightId" -> InMemoryFlightId(t)
\* C17: the flight id is a function of flight number, origin, departure date
\* and departure time only: the same tuple gets the same id again, and a
\* tuple that differs in any one field gets a different id
C17_FlightIdOfFourFields ==
    (pure.fn \in {"RangeFlightId", "ScraperFlightId", "generateFlightId"} /\ pure.applied) =>
        /\ FlightIdFunction(pure.fn, pure.args) = pure.value
        /\ \A u \in OneFieldApart(pure.args) : FlightIdFunction(pure.fn, u) # pure.value

\* C18: the id of a Deal row is made of its trip, its source and its provider
\* only, so the store holds at most one Deal row per trip, source and
\* provider, whatever the prices and links of the quotes ingested
C18_OneDealPerProvider ==
    \A d \in DOMAIN store.deals :
        /\ store.deals[d].id = d
        /\ store.deals[d].source = "skyscanner"
        /\ d = DealIdOf(store.deals[d].trip, store.deals[d].provider)
        /\ \A e \in DOMAIN store.deals :
              (/\ store.deals[e].trip = store.deals[d].trip
               /\ store.deals[e].source = store.deals[d].source
               /\ store.deals[e].provider = store.deals[d].provider) => e = d
C18_Witness ==
    /\ Len(log) = 2 /\ log[1].ctx = log[2].ctx /\ pc = "fetch_queries"
    /\ Len(log[1].flights) = 1 /\ Len(log[1].flights[1].prices) = 1
    /\ \E d \in DOMAIN store.deals :
          /\ store.deals[d].provider = log[1].flights[1].prices[1].provider
          /\ store.deals[d].price # log[1].flights[1].prices[1].price
          /\ store.deals[d].price = log[2].flights[1].prices[1].price

\* a search, its origin and destination in capitals
SearchOf(origin, destination, departureDate, returnDate) ==
    << ToUpperCase(origin), ToUpperCase(destination), departureDate, returnDate >>
SearchOfRow(r) == SearchOf(r.origin, r.destination, r.departure_date, r.return_date)
\* C19: fetch_queries holds at most one row per search (origin, destination,
\* departure date, return date), origins and destinations that differ in
\* letter case only being the same search; every row is the row of a search
\* that was made
C19_OneRowPerSearch ==
    \A q \in DOMAIN store.fetch_queries :
        /\ store.fetch_queries[q].id = q
        /\ \E k \in 1..Len(log) :
              SearchOf(log[k].ctx.origin, log[k].ctx.destination, log[k].ctx.departureDate,
                       log[k].ctx.returnDate) = SearchOfRow(store.fetch_queries[q])
        /\ \A p \in DOMAIN store.fetch_queries :
              SearchOfRow(store.fetch_queries[p]) = SearchOfRow(store.fetch_queries[q]) => p = q
C19_Witness ==
    /\ pc = "idle" /\ calls = 2 /\ Len(log) = 2
    /\ log[1].ctx.origin # log[2].ctx.origin
    /\ ToUpperCase(log[1].ctx.origin) = ToUpperCase(log[2].ctx.origin)
    /\ ToUpperCase(log[1].ctx.destination) = ToUpperCase(log[2].ctx.destination)
    /\ Cardinality(DOMAIN store.fetch_queries) = 1
    /\ \E q \in DOMAIN store.fetch_queries : store.fetch_queries[q].last_fetched = 2

\* C20: the FetchQuery row of a search is written only by an ingestion of
\* that search that extracted itineraries and whose flights, trips, legs and
\* deals upserts all succeeded; a scrape that failed, or one of whose upserts
\* failed, leaves the row as it was
C20_StampOnlyAfterSuccess ==
    [][store'.fetch_queries # store.fetch_queries =>
          /\ allFlights # <<>>
          /\ DOMAIN store'.fetch_queries = DOMAIN store.fetch_queries \cup {FetchQueryRow.id}
          /\ RecordsInStore(maps)]_vars

\* the ids of the flights of the legs of a section, in the handlers' format
SectionFlightIds(sec) ==
    [i \in 1..Len(sec.legPanels) |->
        FlightIdOf(sec.legPanels[i].flightNumber, sec.legPanels[i].origin,
                   convertDateToYYYYMMDD(sec.date),
                   parseTimeTo24Hour(sec.legPanels[i].departure))]
\* C21: an itinerary block with a valid outbound section, at least one price
\* and a return section whose only leg lacks its arrival time is ingested as
\* a one-way itinerary: the trip of the outbound flights and a deal per
\* price are created, and no inbound leg
C21_ReturnLegDropped ==
    (pure.fn = "BuildRecords" /\ pure.applied /\ pure.args.block = BlockReturnNoArrival) =>
        LET trip == TripIdOf(SectionFlightIds(pure.args.block.outbound), <<>>)
        IN /\ DOMAIN pure.value.trips = {trip}
           /\ { pure.value.deals[d].provider : d \in DOMAIN pure.value.deals } = {PV_X, PV_Y}
           /\ \A d \in DOMAIN pure.value.deals : pure.value.deals[d].trip = trip
           /\ \A l \in DOMAIN pure.value.legs : ~pure.value.legs[l].inbound

\* the blocks of a document that extract, without an exception, to an
\* itinerary with a price
Extracts(block) == ~block.throws /\ extractFlightFromSearchModal(block).found
\* C22: whatever happens in the other blocks of the document, the output
\* holds the itinerary of each block that extracts with a price, once and
\* in document order
C22_BlockFailuresSkipped ==
    (pure.fn = "extractFlights" /\ pure.applied) =>
        LET good == SelectSeq([i \in 1..Len(pure.args) |-> i],
                              LAMBDA i : Extracts(pure.args[i]))
        IN pure.value = [k \in 1..Len(good) |-> extractFlightFromSearchModal(pure.args[good[k]])]
C22_Witness ==
    /\ pure.fn = "extractFlights" /\ pure.applied /\ Len(pure.args) = 3
    /\ pure.args[1] = BlockB /\ pure.args[2] = BlockThrows /\ pure.args[3] = BlockA(100, "a1")
    /\ Len(pure.value) = 2

\* C23: the headline price of an itinerary is one of the prices read from
\* its provider rows and no such price is numerically smaller; a block with
\* an outbound section and no row with a readable price gives no itinerary.
Readable(text) == \E i \in 1..Len(text) : IsDigit(text[i])
C23_WitnessNoPrice ==
    /\ pure.fn = "HeadlinePrice" /\ pure.applied
    /\ pure.args = << PT_NA, PT_NA >> /\ ~pure.value.found

\* C24: an invocation of scrape or scrapeRange ends, and it ends by
\* returning a result with a success flag and a message or an error text,
\* whatever the network, the parser, the record conversion and the store do.
StructuredResult ==
    /\ result.success \in BOOLEAN
    /\ result.message # ""
    /\ result.status \in {200, 400, 500}
C24_AlwaysReturns ==
    /\ [](~IsLib /\ result.returned => StructuredResult)
    /\ [](~IsLib /\ pc # "idle" => <>(pc = "idle" /\ result.returned))
C24_Witness ==
    /\ impl = "FlightScraper" /\ pc = "idle" /\ result.returned
    /\ result = HandlerCaught /\ phase = "FINISHED"

\* C25: no step removes an identifier from the flights, trips, legs or deals
\* table; a table changes only when its upsert completes, the rows that
\* change are the records of that upsert, and every row is stored under the
\* identifier it carries.
C25_NeverDeletes ==
    /\ [](\A j \in 1..Len(Tables) :
            \A id \in DOMAIN store[Tables[j]] : store[Tables[j]][id].id = id)
    /\ [][\A j \in 1..Len(Tables) :
            LET t == Tables[j]
            IN /\ DOMAIN store[t] \subseteq DOMAIN store'[t]
               /\ store'[t] # store[t] =>
                    /\ pc = t
                    /\ \A id \in DOMAIN store'[t] :
                          (id \notin DOMAIN store[t] \/ store'[t][id] # store[t][id])
                              => id \in DOMAIN maps[t] /\ store'[t][id] = maps[t][id]]_vars
C25_Witness ==
    /\ pc = "idle" /\ calls = 2 /\ Len(log) = 2
    /\ req.destination = AP_LHR
    /\ \E id \in DOMAIN store.deals : store.deals[id].destination = AP_MUC
    /\ \E id \in DOMAIN store.deals : store.deals[id].destination = AP_LHR

\* C26: the record collections that the running ingestion call writes to
\* hold only records that this call extracted: the maps of a handler are
\* the records of the itineraries of its search, and every deal in the
\* database of the library was written by the call that is running.
C26_RecordMapsLocal ==
    /\ ~IsLib /\ pc \in {"flights", "trips", "legs", "deals", "fetch_queries"} =>
          LET recs == BuildRecords(impl, allFlights, Ctx)
          IN \A j \in 1..Len(Tables) : DOMAIN maps[Tables[j]] \subseteq DOMAIN recs[Tables[j]]
    /\ IsLib /\ pc # "idle" =>
          \A id \in DOMAIN db.deals : db.deals[id].last_update = calls

\* C27: when two calls that extracted the same itinerary have both finished,
\* their upserts interleaved in whatever order, every table holds one row
\* for each identifier of the itinerary and no other row, the flight, trip
\* and leg rows are the records both calls built, and each deal row is the
\* deal record of one of the two calls.
BothDone == pc = "idle" /\ result.returned /\ second.pc = "done"
C27_InterleavedUpserts ==
    BothDone =>
        LET first == BuildRecords(impl, log[Len(log)].flights, log[Len(log)].ctx)
        IN \A j \in 1..Len(Tables) :
              LET t == Tables[j]
              IN /\ DOMAIN store[t] = DOMAIN first[t]
                 /\ DOMAIN store[t] = DOMAIN second.maps[t]
                 /\ Cardinality(DOMAIN store[t]) = 1
                 /\ \A id \in DOMAIN store[t] :
                       /\ store[t][id] \in {first[t][id], second.maps[t][id]}
                       /\ t # "deals" => first[t][id] = second.maps[t][id]
\* the second call wrote its deal between two upserts of the first, which
\* wrote its own price over it
C27_Witness ==
    /\ BothDone /\ Len(log) = 1
    /\ \E id \in DOMAIN store.deals :
          /\ store.deals[id].price = 100
          /\ second.maps.deals[id].price = 90
          /\ store.flights = second.maps.flights

\* C28: a poll request is issued either as the first of its search, when
\* the initial response has come, or when the wait after a poll response
\* that was not terminal is over; a poll response never leads to the next
\* request without the wait.
C28_WaitBetweenPolls ==
    /\ [][pc' = "poll" =>
            \/ pc = "init" /\ nPoll' = 1
            \/ pc = "wait" /\ nPoll' = nPoll + 1 /\ lastPoll.received
                           /\ ~IsTerminalResponse(lastPoll.response)]_vars
    /\ [][nPoll' > nPoll => pc' = "poll"]_vars
    /\ [][pc = "poll" => pc' \in {"wait", "after"}]_vars
C28_Witness ==
    /\ pc = "poll" /\ nPoll = 3 /\ ~lastPoll.received

\* C29: in a range scrape the initial request of every combination after
\* the first is issued by the step that ends the delay between two
\* combinations, however the combination before it ended.
C29_DelayBetweenCombinations ==
    [][IsRange /\ pc' = "init" /\ comboIdx' > 1 => pc = "delay"]_vars

\* C30: for every 12-hour clock time, hour 1 to 12, minute 0 to 59, AM or
\* PM, parseTimeTo24Hour gives the 24-hour text of the same time of day:
\* 12 AM is hour 0, 12 PM is hour 12, another PM hour h is h + 12 and another
\* AM hour is h, the minutes are kept and the seconds are 00.
MinuteOfDay(t) ==
    (IF t.hour = 12 THEN 0 ELSE t.hour * 60) + (IF t.pm THEN 12 * 60 ELSE 0) + t.minute
C30_TwelveHourClock ==
    pure.fn = "parseTimeTo24Hour" /\ pure.applied =>
        LET m == MinuteOfDay(pure.args)
        IN pure.value = Pad2(m \div 60) \o <<Colon>> \o Pad2(m % 60) \o <<Colon, 48, 48>>
C30_Witness ==
    /\ pure.fn = "parseTimeTo24Hour" /\ pure.applied
    /\ pure.args.hour = 12 /\ pure.args.minute = 30 /\ ~pure.args.pm /\ pure.args.lower
    /\ pure.value = <<48, 48, 58, 51, 48, 58, 48, 48>>

\* C31: whatever the text, parseTimeTo24Hour returns nothing or a time of
\* the form HH:MM:SS.
CanonicalTime(v) ==
    /\ Len(v) = 8
    /\ \A i \in {1, 2, 4, 5, 7, 8} : IsDigit(v[i])
    /\ v[3] = Colon /\ v[6] = Colon
C31_CanonicalOrNone ==
    pure.fn = "parseTimeTo24Hour of a text" /\ pure.applied =>
        pure.value = <<>> \/ CanonicalTime(pure.value)

\* C32: parseDurationToMinutes gives 60 * h + m for a text of h hours and m
\* minutes in each of its forms, with or without a seconds part, and 0 for
\* the empty text and for a text that is no duration.
DurationExpected(d) ==
    CASE d.form \in {"Hh Mm", "HhMm", "HhM", "Hh M", "H:MM", "Hh Mm Ss", "H:MM:SS"} -> 60 * d.h + d.m
      [] d.form \in {"Hh", "Hh Ss"} -> 60 * d.h
      [] d.form \in {"Mm", "Mm Ss"} -> d.m
      [] OTHER -> 0
C32_DurationMinutes ==
    pure.fn = "parseDurationToMinutes" /\ pure.applied =>
        pure.value = DurationExpected(pure.args)
C32_Witness ==
    /\ pure.fn = "parseDurationToMinutes" /\ pure.applied
    /\ pure.args.form = "HhM" /\ pure.args.h = 1 /\ pure.args.m = 50 /\ pure.value = 110

\* C33: when every request, upsert and wait returns, the poll loop of a
\* single search is left, with the search FINISHED or ABORTED or with
\* maxPolls polls made, and the call then returns a result.
LoopLeft ==
    /\ pc = "after"
    /\ \/ phase = "FINISHED" /\ finished
       \/ phase = "ABORTED"
       \/ pollCount = maxPolls /\ ~finished
C33_SearchTerminates ==
    /\ [](pc = "poll" => <>LoopLeft)
    /\ [](pc = "after" => LoopLeft)
    /\ [](pc # "idle" => <>(pc = "idle" /\ result.returned))
C33_Witness ==
    /\ pc = "idle" /\ result.returned /\ impl = "fetchSkyscanner"
    /\ ended.nPoll = maxPolls /\ ended.phase = "POLLING"

\* C34: the body of every poll request is the job payload of the initial
\* response with the noc field alone replaced by a new value, and no step
\* of the poll loop changes the stored payload.
C34_PollCarriesPayload ==
    /\ [](lastPoll.received =>
            /\ [lastPoll.body EXCEPT !.noc = dataObject.noc] = dataObject
            /\ lastPoll.body.token = dataObject.token
            /\ lastPoll.body.noc # dataObject.noc)
    /\ [][(pc = "poll" \/ pc = "wait") => (dataObject' = dataObject)]_vars
    /\ [][pc = "init" /\ pc' = "poll"
            => \E r \in InitialResponses : dataObject' = r.data /\ ~NoToken(r.data)]_vars
C34_Witness ==
    /\ lastPoll.received /\ pollCount = 3 /\ lastPoll.body.token = "tok"
    /\ lastPoll.body.noc = "3" /\ dataObject.noc = "0"

\* C35: ClearTables starts the delete of a table only when the delete of
\* the table before it in the order deals, legs, trips, flights has
\* completed.
C35_DeleteOrder ==
    \A i \in 2..Len(ClearOrder) :
        ClearOrder[i] \in clearTables.started
            => ClearOrder[i - 1] \in clearTables.deleted \cup clearTables.failed

\* C36: between two calls of clear, each collection of the in-memory
\* database holds one entry per identifier, an add replaces the entry of
\* its identifier, and the added event of an identifier has been emitted
\* once, at the add that found the identifier absent; right after clear the
\* three collections are empty.
RECURSIVE SinceClear(_)
SinceClear(events) ==
    IF events = <<>> \/ events[Len(events)][1] = "db:cleared" THEN <<>>
    ELSE Append(SinceClear(SubSeq(events, 1, Len(events) - 1)), events[Len(events)])
Emitted(events, name, id) ==
    Cardinality({ i \in DOMAIN events : events[i] = << name, id >> })
OnePerIdentifier ==
    LET e == SinceClear(db.events)
    IN /\ \A id \in DOMAIN db.flights :
             db.flights[id].id = id /\ Emitted(e, "flight:added", id) = 1
       /\ \A id \in DOMAIN db.trips :
             db.trips[id].id = id /\ Emitted(e, "trip:added", id) = 1
       /\ \A id \in DOMAIN db.deals :
             /\ generateDealId(db.deals[id].trip, db.deals[id].provider) = id
             /\ Emitted(e, "deal:added", id) = 1
       /\ \A i \in DOMAIN e :
             \/ e[i][1] = "flight:added" /\ e[i][2] \in DOMAIN db.flights
             \/ e[i][1] = "trip:added" /\ e[i][2] \in DOMAIN db.trips
             \/ e[i][1] = "deal:added" /\ e[i][2] \in DOMAIN db.deals
       /\ (db.events # <<>> /\ e = <<>>)
             => db.flights = EmptyMap /\ db.trips = EmptyMap /\ db.deals = EmptyMap
C36_OneEntryOneEvent ==
    /\ []OnePerIdentifier
    /\ [][\A flight \in DbFlights : DbAddFlight(flight)
            => /\ db'.flights[flight.id] = flight
               /\ (flight.id \in DOMAIN db.flights => db'.events = db.events)]_vars
    /\ [][\A deal \in DbDeals : DbAddDeal(deal)
            => db'.deals[generateDealId(deal.trip, deal.provider)] = deal]_vars
    /\ [][DbClear => (db'.flights = EmptyMap /\ db'.trips = EmptyMap /\ db'.deals = EmptyMap)]_vars
C36_Witness ==
    /\ Len(db.events) = MaxEvents /\ db.events[3] = << "db:cleared", <<>> >>
    /\ Len(SinceClear(db.events)) = 3
    /\ \E id \in DOMAIN db.flights : db.flights[id] = DbFlight(FN_LH1, AP_LHR)
    /\ \E id \in DOMAIN db.deals : db.deals[id].price = <<56, 53>>

\* C37: within a combination of a range scrape the upserts follow the
\* order flights, trips, legs, deals, fetch_queries; an upsert is awaited
\* only when the records of every table before it are in the store, a
\* table changes only at its own upsert, and after an upsert error nothing
\* more of the combination is written.
WriteOrder == << "flights", "trips", "legs", "deals", "fetch_queries" >>
WritePos(p) == CHOOSE k \in 1..Len(WriteOrder) : WriteOrder[k] = p
AtUpsert(p) == p \in { WriteOrder[k] : k \in 1..Len(WriteOrder) }
EarlierSaved ==
    IsRange /\ AtUpsert(pc) =>
        \A k \in 1..(WritePos(pc) - 1) :
            \A id \in DOMAIN maps[WriteOrder[k]] :
                /\ id \in DOMAIN store[WriteOrder[k]]
                /\ store[WriteOrder[k]][id] = maps[WriteOrder[k]][id]
C37_UpsertOrder ==
    /\ []EarlierSaved
    /\ [][IsRange =>
            /\ \A k \in 1..Len(WriteOrder) :
                  store'[WriteOrder[k]] # store[WriteOrder[k]] => pc = WriteOrder[k]
            /\ (AtUpsert(pc') /\ ~AtUpsert(pc)) => pc = "after"
            /\ (AtUpsert(pc) /\ AtUpsert(pc') /\ pc' # pc)
                  => (WritePos(pc') > WritePos(pc) /\ comboIdx' = comboIdx /\ outcomes' = outcomes)
            /\ (AtUpsert(pc) /\ outcomes' = Append(outcomes, "not saved"))
                  => (store' = store /\ ~AtUpsert(pc'))]_vars
C37_Witness ==
    /\ IsRange /\ pc = "init" /\ comboIdx = 2 /\ outcomes = << "not saved" >>
    /\ store.flights # EmptyMap /\ store.trips # EmptyMap
    /\ store.legs = EmptyMap /\ store.deals = EmptyMap /\ store.fetch_queries = EmptyMap

\* C38: every trip among the records built from a document has an outbound
\* leg among them, and so has the trip of every deal.
HasOutboundLeg(m, tripId) ==
    \E id \in DOMAIN m.legs : m.legs[id].trip = tripId /\ ~m.legs[id].inbound
C38_TripHasOutboundLeg ==
    pure.fn = "BuildRecords" /\ pure.applied =>
        /\ \A id \in DOMAIN pure.value.trips : HasOutboundLeg(pure.value, id)
        /\ \A id \in DOMAIN pure.value.deals :
              HasOutboundLeg(pure.value, pure.value.deals[id].trip)

\* C39: among the records built from a document, every leg names a flight
\* and a trip that are among them, and every deal names a trip that is
\* among them.
C39_ReferencesInBatch ==
    pure.fn = "BuildRecords" /\ pure.applied =>
        /\ \A id \in DOMAIN pure.value.legs :
              /\ pure.value.legs[id].flight \in DOMAIN pure.value.flights
              /\ pure.value.legs[id].trip \in DOMAIN pure.value.trips
        /\ \A id \in DOMAIN pure.value.deals :
              pure.value.deals[id].trip \in DOMAIN pure.value.trips
C39_Witness ==
    /\ pure.fn = "BuildRecords" /\ pure.applied /\ pure.args.block = BlockReturnNoDate
    /\ pure.args.impl = "FlightScraperShared"
    /\ \E id \in DOMAIN pure.value.legs : pure.value.legs[id].inbound
    /\ pure.value.deals # EmptyMap

\* C40: the tripsScraped that scrape returns is the number of trips that
\* the call has saved: the store was empty when the call came in, so these
\* are the trips in the store when it returns.
C40_TripsScrapedSaved ==
    (~IsRange /\ ~IsLib /\ pc = "idle" /\ result.returned /\ result.success)
        => result.tripsScraped = Cardinality(DOMAIN store.trips)
====
